---- MODULE Spec2Model ----
(***************************************************************************)
(* A state-machine model of the ABTO / StreetWalk web application          *)
(* (src/app.py): the streets collection with likes, soft delete and        *)
(* ownership, the session-based access control, and the trip-price         *)
(* module (geocode cache, retry loop, /api/price), the password reset by   *)
(* emailed token and the activity log.                                     *)
(*                                                                         *)
(* Text (form values, URL parts, ObjectId strings, place names) is a       *)
(* sequence of chunks, a chunk being one character or a run of lower-case  *)
(* non-blank characters written as one word (<<"walk">>), so that strip(), *)
(* lower(), split(), float() and ObjectId() are computed and not assumed.  *)
(* The 24 hex digits of an ObjectId are abbreviated to the digits that     *)
(* distinguish the ids of the model.                                       *)
(***************************************************************************)
EXTENDS Integers, Sequences, FiniteSets, TLC

VARIABLES
    users,      \* users_collection: user id -> document, or NoDoc
    session,    \* per browser: the signed session cookie (user_id, next, liked)
    streets,    \* streets_collection: ObjectId -> document, or NoDoc
    now,        \* datetime.utcnow(), in hours
    resp,       \* the response to the request served last
    cache,      \* geocode_cache: key q -> entry, or NoDoc
    geo,        \* the /api/price request in flight and its geocode_place call
    reset_tokens,   \* password_resets: token -> document, or NoDoc
    activity_logs,  \* activity_logs: the documents inserted, oldest first
    outbox,         \* the messages send_email handed to the SMTP server
    resetting,      \* per browser: the /reset-password request in flight
    liking,         \* per like request in flight: where like_street stands
    editing         \* per browser: where its edit_street POST stands

\* the collections and requests of the account services
accountVars == <<reset_tokens, activity_logs, outbox, resetting>>

\* the like and edit requests served step by step
flightVars == <<liking, editing>>

vars == <<users, session, streets, now, resp, cache, geo,
          reset_tokens, activity_logs, outbox, resetting, liking, editing>>

----------------------------------------------------------------------------
(* Python values *)

\* None, for a value that is otherwise text or an ObjectId
None == <<"None">>

\* a document that find_one did not find
NoDoc == [missing |-> TRUE]

\* a timestamp field that is not set
NoTime == 0 - 1

UpperChars == <<"A", "B", "C", "D", "E", "F", "G", "H", "I", "J", "K", "L", "M",
                "N", "O", "P", "Q", "R", "S", "T", "U", "V", "W", "X", "Y", "Z">>
LowerChars == <<"a", "b", "c", "d", "e", "f", "g", "h", "i", "j", "k", "l", "m",
                "n", "o", "p", "q", "r", "s", "t", "u", "v", "w", "x", "y", "z">>
DigitChars == <<"0", "1", "2", "3", "4", "5", "6", "7", "8", "9">>
Whitespace == {" ", "\n"}

Range(f) == {f[i] : i \in DOMAIN f}

\* str.lower() on one character
LowerChar(c) ==
    IF \E i \in DOMAIN UpperChars : UpperChars[i] = c
    THEN LowerChars[CHOOSE i \in DOMAIN UpperChars : UpperChars[i] = c]
    ELSE c

\* str.lower()
Lower(s) == [i \in DOMAIN s |-> LowerChar(s[i])]

\* str.strip(): leading and trailing whitespace removed
Strip(s) ==
    LET keep == {i \in DOMAIN s : s[i] \notin Whitespace}
    IN  IF keep = {} THEN <<>>
        ELSE LET lo == CHOOSE i \in keep : \A j \in keep : i <= j
                 hi == CHOOSE i \in keep : \A j \in keep : j <= i
             IN  SubSeq(s, lo, hi)

\* s[:n]
Prefix(s, n) == IF Len(s) <= n THEN s ELSE SubSeq(s, 1, n)

\* Python truthiness of a text-or-None value
Truthy(v) == v # None /\ v # <<>>

clean_text(value, max_len) ==
    IF ~Truthy(value) THEN None ELSE Prefix(Strip(value), max_len)

----------------------------------------------------------------------------
(* ObjectId *)

HexChars == Range(DigitChars) \cup {"a", "b", "c", "d", "e", "f"}
                              \cup {"A", "B", "C", "D", "E", "F"}

\* bson accepts the hex digits in either case; InvalidId otherwise
ValidOid(s) == s # None /\ s # <<>> /\ \A i \in DOMAIN s : s[i] \in HexChars

\* ObjectId(s) of a valid s; str(ObjectId(s)) is the lower-case form
ObjectId(s) == Lower(s)

----------------------------------------------------------------------------
(* The universe of the model *)

Sessions == {"s1", "s2"}

\* like requests that may be served at the same time
LikeRequests == {"r1", "r2"}

\* no like request, no edit in flight
IdleLike == [pc |-> "idle"]

IdleEdit == [pc |-> "idle"]

FlightInit ==
    /\ liking = [r \in LikeRequests |-> IdleLike]
    /\ editing = [s \in Sessions |-> IdleEdit]

\* ids the store hands out to streets
StreetOids == {<<"a">>, <<"b">>}

\* street_id as it appears in a URL: both spellings of an id, and a malformed one
StreetIdStrings == {<<"a">>, <<"A">>, <<"b">>, <<"g">>}

UserIds == {<<"1">>, <<"2">>, <<"3">>}

\* cap on the likes counter of one street
MaxLikes == 3

\* cap on the clock
MaxClock == 1

\* the tokens uuid4 gives
Tokens == {<<"t1">>, <<"t2">>}

----------------------------------------------------------------------------
(* Documents and queries *)

\* dict.get(k), None when the key is absent
Get(doc, k) == IF k \in DOMAIN doc THEN doc[k] ELSE None

\* a MongoDB equality filter: every key of q is a field of doc with that value
Matches(doc, q) ==
    /\ doc # NoDoc
    /\ \A k \in DOMAIN q : k \in DOMAIN doc /\ doc[k] = q[k]

\* make_json_safe(doc) of a stored document: the document with its _id
WithId(coll, oid) == [_id |-> oid] @@ coll[oid]

\* list_with_str_id(collection.find(q)), as the set of the documents found
Find(coll, q) == {WithId(coll, oid) : oid \in {o \in DOMAIN coll : Matches(coll[o], q)}}

\* a base query that forgets the deleted flag
published_not_deleted_KeepsDeleted(extra) == extra @@ [status |-> <<"published">>]

published_not_deleted(extra) ==
    extra @@ [status |-> <<"published">>, deleted |-> FALSE]

NoExtra == <<>>

get_street_by_id(street_id) ==
    IF ~Truthy(street_id) THEN NoDoc
    ELSE IF ~ValidOid(street_id) THEN NoDoc
    ELSE IF ObjectId(street_id) \notin DOMAIN streets THEN NoDoc
    ELSE IF streets[ObjectId(street_id)] = NoDoc THEN NoDoc
    ELSE WithId(streets, ObjectId(street_id))

----------------------------------------------------------------------------
(* Sessions and users *)

EmptySession == [user_id |-> None, next |-> None, liked |-> {}]

\* request.path of an endpoint with its URL argument; url_for(ep) is Path(ep, None)
Path(ep, arg) == <<ep, arg>>

current_user(s) ==
    LET uid == session[s].user_id
    IN  IF ~Truthy(uid) THEN NoDoc
        ELSE IF ~ValidOid(uid) THEN NoDoc
        ELSE IF ObjectId(uid) \notin DOMAIN users THEN NoDoc
        ELSE IF users[ObjectId(uid)] = NoDoc THEN NoDoc
        ELSE WithId(users, ObjectId(uid))

is_admin_user(user) ==
    IF user = NoDoc THEN FALSE ELSE Get(user, "role") = <<"admin">>

\* werkzeug's password hash, without its salt
generate_password_hash(password) == <<"#">> \o password

check_password_hash(hash, password) == hash = generate_password_hash(password)

----------------------------------------------------------------------------
(* Responses *)

\* no form: a GET, or a request whose form the model does not follow
NoForm == [none |-> TRUE]

\* The response to the request served last, with the request it answers
\* (endpoint, browser, URL argument, posted form).  seq is the parity of the
\* number of requests served, so that every request is a step; note names
\* the branch of the handler that answered.
Response(ep, s, arg, status, loc, note, body) ==
    [seq |-> 1 - resp.seq, ep |-> ep, sess |-> s, arg |-> arg, form |-> NoForm,
     status |-> status, loc |-> loc, note |-> note, body |-> body]

\* the response r, to a POST of form
Posted(r, form) == [r EXCEPT !.form = form]

NoBody == [none |-> TRUE]

redirect(ep, s, arg, to, note) == Response(ep, s, arg, 302, to, note, NoBody)

abort(ep, s, arg, status, note) == Response(ep, s, arg, status, None, note, NoBody)

PublicEndpoints ==
    {"static", "index", "world", "world_walk", "world_drive", "world_fly",
     "world_sit", "walk", "drive", "fly", "sit", "how_it_works", "login",
     "signup", "forgot_password", "reset_password", "login_google",
     "auth_google_callback", "logout", "api_price", "like_street"}

ProtectedEndpoints ==
    {"upload", "dashboard", "edit_street", "delete_street", "log_activity"}

\* protect_protected_routes: TRUE when the before_request hook answers the
\* request itself, with a redirect to login
protect_protected_routes(ep, s) ==
    IF ep \in PublicEndpoints THEN FALSE
    ELSE ep \in ProtectedEndpoints /\ ~Truthy(session[s].user_id)

\* session["next"] = request.path; return redirect(url_for("login"))
RememberAndRedirect(ep, s, arg) ==
    /\ session' = [session EXCEPT ![s].next = Path(ep, arg)]
    /\ resp' = redirect(ep, s, arg, Path("login", None), "login_required")

\* the same, in answer to a request that may carry a form
RememberAndRedirectForm(ep, s, arg, method, form) ==
    /\ session' = [session EXCEPT ![s].next = Path(ep, arg)]
    /\ resp' = IF method = "POST"
               THEN Posted(redirect(ep, s, arg, Path("login", None), "login_required"), form)
               ELSE redirect(ep, s, arg, Path("login", None), "login_required")

----------------------------------------------------------------------------
(* Time *)

\* time passes between requests
Later(hours) ==
    /\ now < MaxClock
    /\ geo.pc = "idle"
    /\ now' = now + hours
    /\ UNCHANGED <<users, session, streets, resp, cache, geo, accountVars, flightVars>>

Tick == Later(1)

----------------------------------------------------------------------------
(* Like endpoint *)

\* $inc of likes on the document with this _id, if there is one
IncLikes(oid) ==
    IF oid \in DOMAIN streets /\ streets[oid] # NoDoc
    THEN [streets EXCEPT ![oid].likes = @ + 1]
    ELSE streets

\* {"likes": street.get("likes", 0) if street else 0}
LikesBody(coll, oid) ==
    [likes |-> IF oid \in DOMAIN coll /\ coll[oid] # NoDoc THEN coll[oid].likes ELSE 0]

\* a like_street that never consults the session
AlreadyLiked_Forgotten(s, street_id) == FALSE

\* the branch of like_street for a street_id the session has liked already
AlreadyLiked(s, street_id) == street_id \in session[s].liked

like_street(s, street_id) ==
    /\ ~protect_protected_routes("like_street", s)
    /\ IF ~ValidOid(street_id)
       THEN /\ resp' = Response("like_street", s, street_id, 400, None, "invalid_id",
                                [error |-> "Invalid ID"])
            /\ UNCHANGED <<streets, session>>
       ELSE LET oid == ObjectId(street_id) IN
            IF AlreadyLiked(s, street_id)
            THEN /\ resp' = Response("like_street", s, street_id, 200, None,
                                     "already_liked", LikesBody(streets, oid))
                 /\ UNCHANGED <<streets, session>>
            ELSE /\ LikesBody(streets, oid).likes < MaxLikes
                 /\ streets' = IncLikes(oid)
                 /\ session' = [session EXCEPT ![s].liked = @ \cup {street_id}]
                 /\ resp' = Response("like_street", s, street_id, 200, None,
                                     "incremented", LikesBody(streets', oid))
    /\ UNCHANGED <<users, now, cache, geo, accountVars, flightVars>>

----------------------------------------------------------------------------
(* Signup, login, logout *)

\* users_collection.find_one({"email": email}): the id of a user found, or None
FindUserByEmail(email) ==
    IF \E u \in DOMAIN users : Matches(users[u], [email |-> email])
    THEN CHOOSE u \in DOMAIN users : Matches(users[u], [email |-> email])
    ELSE None

signup(s, method, form) ==
    /\ ~protect_protected_routes("signup", s)
    /\ IF method = "POST"
       THEN LET email == Lower(Strip(form.email)) IN
            IF FindUserByEmail(email) # None
            THEN /\ resp' = Posted(redirect("signup", s, None, Path("signup", None),
                                             "email_taken"), form)
                 /\ UNCHANGED users
            ELSE /\ \E u \in DOMAIN users :
                        /\ users[u] = NoDoc
                        /\ users' = [users EXCEPT ![u] =
                              [email |-> email,
                               name |-> Strip(form.name),
                               passwordHash |-> generate_password_hash(form.password),
                               createdAt |-> now,
                               lastLoginAt |-> NoTime,
                               role |-> <<"user">>]]
                 /\ resp' = Posted(redirect("signup", s, None, Path("login", None),
                                             "created"), form)
       ELSE /\ resp' = Response("signup", s, None, 200, None, "form", NoBody)
            /\ UNCHANGED users
    /\ UNCHANGED <<session, streets, now, cache, geo, accountVars, flightVars>>

\* a login that forgets the path remembered
NextUrl_AlwaysIndex(s) == Path("index", None)

\* session.pop("next", None) or url_for("index")
NextUrl(s) == IF Truthy(session[s].next) THEN session[s].next ELSE Path("index", None)

login(s, method, form) ==
    /\ ~protect_protected_routes("login", s)
    /\ IF method = "POST"
       THEN LET email == Lower(Strip(form.email))
                uid == FindUserByEmail(email)
            IN  IF uid = None \/ ~Truthy(Get(users[uid], "passwordHash"))
                THEN /\ resp' = Posted(redirect("login", s, None, Path("login", None),
                                                 "invalid"), form)
                     /\ UNCHANGED <<users, session>>
                ELSE IF ~check_password_hash(users[uid].passwordHash, form.password)
                THEN /\ resp' = Posted(redirect("login", s, None, Path("login", None),
                                                 "invalid"), form)
                     /\ UNCHANGED <<users, session>>
                ELSE /\ users' = [users EXCEPT ![uid].lastLoginAt = now]
                     /\ session' = [session EXCEPT ![s].user_id = uid, ![s].next = None]
                     /\ resp' = Posted(redirect("login", s, None, NextUrl(s), "signed_in"),
                                        form)
       ELSE /\ resp' = Response("login", s, None, 200, None, "form", NoBody)
            /\ UNCHANGED <<users, session>>
    /\ UNCHANGED <<streets, now, cache, geo, accountVars, flightVars>>

logout(s) ==
    /\ ~protect_protected_routes("logout", s)
    /\ session' = [session EXCEPT ![s] = EmptySession]
    /\ resp' = redirect("logout", s, None, Path("index", None), "signed_out")
    /\ UNCHANGED <<users, streets, now, cache, geo, accountVars, flightVars>>

----------------------------------------------------------------------------
(* Parsing of form values *)

DigitVal(c) == (CHOOSE i \in DOMAIN DigitChars : DigitChars[i] = c) - 1

RECURSIVE DigitsValue(_)
DigitsValue(d) ==
    IF d = <<>> THEN 0
    ELSE 10 * DigitsValue(SubSeq(d, 1, Len(d) - 1)) + DigitVal(d[Len(d)])

\* float(v), for whole numbers and nan: ok is FALSE where Python raises
float(v) ==
    IF v = None THEN [ok |-> FALSE, nan |-> FALSE, v |-> 0]
    ELSE LET t == Strip(v)
             signed == t # <<>> /\ t[1] \in {"-", "+"}
             d == IF signed THEN Tail(t) ELSE t
         IN  IF d = <<"nan">> THEN [ok |-> TRUE, nan |-> TRUE, v |-> 0]
             ELSE IF d = <<>> \/ \E i \in DOMAIN d : d[i] \notin Range(DigitChars)
             THEN [ok |-> FALSE, nan |-> FALSE, v |-> 0]
             ELSE [ok |-> TRUE, nan |-> FALSE,
                   v |-> IF signed /\ t[1] = "-" THEN 0 - DigitsValue(d) ELSE DigitsValue(d)]

\* a range test that forgets lng
LatLngInRange_LatOnly(lat, lng) == ~lat.nan /\ 0 - 90 <= lat.v /\ lat.v <= 90

\* -90 <= lat <= 90 and -180 <= lng <= 180; every comparison with nan is false
LatLngInRange(lat, lng) ==
    /\ ~lat.nan /\ ~lng.nan
    /\ 0 - 90 <= lat.v /\ lat.v <= 90
    /\ 0 - 180 <= lng.v /\ lng.v <= 180

\* s.split(sep) for the one-character separators seps
RECURSIVE Split(_, _)
Split(s, seps) ==
    IF \A i \in DOMAIN s : s[i] \notin seps THEN <<s>>
    ELSE LET i == CHOOSE k \in DOMAIN s :
                      s[k] \in seps /\ \A j \in DOMAIN s : s[j] \in seps => k <= j
         IN  <<SubSeq(s, 1, i - 1)>> \o Split(SubSeq(s, i + 1, Len(s)), seps)

NonEmpty(t) == t # <<>>

\* [link.strip() for link in links_raw.replace("\n", ",").split(",")], the
\* empty ones dropped
PastedLinks(links_raw) ==
    IF ~Truthy(links_raw) THEN <<>>
    ELSE LET parts == Split(links_raw, {",", "\n"})
         IN  SelectSeq([i \in DOMAIN parts |-> Strip(parts[i])], NonEmpty)

\* filename.rsplit(".", 1)[-1].lower()
Extension(filename) ==
    LET parts == Split(filename, {"."}) IN Lower(parts[Len(parts)])

ALLOWED_THUMB_EXT ==
    {<<"j", "p", "g">>, <<"j", "p", "e", "g">>, <<"p", "n", "g">>, <<"w", "e", "b", "p">>}

allowed_thumb(filename) ==
    IF ~Truthy(filename) THEN FALSE ELSE Extension(filename) \in ALLOWED_THUMB_EXT

\* per-file limits, in MB
MAX_VIDEO_SIZE == 100
MAX_GLB_SIZE == 50
MAX_THUMB_SIZE == 5

\* An uploaded file: its name, its size in MB, and whether the object store
\* takes it (upload_*_cloudinary / upload_glb_supabase raise when it does not)
NoFile == [filename |-> None, size |-> 0, stored |-> FALSE]

IsFile(f) == Truthy(f.filename)

\* the secure_url the object store answers with
StoredUrl(f) == <<"cdn/">> \o f.filename

----------------------------------------------------------------------------
(* Upload *)

VideoModes == {<<"walk">>, <<"drive">>, <<"fly">>, <<"sit">>}

TourFlagsOn == {<<"on">>, <<"true">>, <<"1">>}

Rejected(note) == [note |-> note, doc |-> NoDoc]

\* "videos": [{"url": url, "title": f"Part {i + 1}"} ...]
VideoList(video_urls) ==
    [i \in DOMAIN video_urls |->
        [url |-> video_urls[i], title |-> <<"Part ", DigitChars[i + 1]>>]]

\* the video branch of upload
upload_video(owner_oid, form, lat, lng) ==
    LET mode == IF form.mode \in VideoModes THEN form.mode ELSE <<"walk">>
        thumb == form.thumbnail
        files == SelectSeq(form.video, IsFile)
        bad == {i \in DOMAIN files : files[i].size > MAX_VIDEO_SIZE \/ ~files[i].stored}
        first == CHOOSE i \in bad : \A j \in bad : i <= j
        video_urls == [i \in DOMAIN files |-> StoredUrl(files[i])]
                          \o PastedLinks(form.video_links)
    IN  IF IsFile(thumb) /\ ~allowed_thumb(thumb.filename) THEN Rejected("thumb_ext")
        ELSE IF IsFile(thumb) /\ thumb.size > MAX_THUMB_SIZE THEN Rejected("thumb_size")
        ELSE IF IsFile(thumb) /\ ~thumb.stored THEN Rejected("thumb_failed")
        ELSE IF bad # {}
        THEN Rejected(IF files[first].size > MAX_VIDEO_SIZE
                      THEN "video_size" ELSE "video_failed")
        ELSE IF video_urls = <<>> THEN Rejected("no_media")
        ELSE [note |-> "created",
              doc |-> [ownerId |-> owner_oid,
                       type |-> <<"video">>,
                       mode |-> mode,
                       category |-> clean_text(form.category, 80),
                       name |-> clean_text(form.name, 100),
                       city |-> clean_text(form.city, 50),
                       country |-> clean_text(form.country, 50),
                       lat |-> lat.v,
                       lng |-> lng.v,
                       description |-> clean_text(form.description, 500),
                       videos |-> VideoList(video_urls),
                       thumbnail_url |-> IF IsFile(thumb) THEN StoredUrl(thumb) ELSE None,
                       likes |-> 0,
                       createdAt |-> now,
                       updatedAt |-> now,
                       status |-> <<"published">>,
                       deleted |-> FALSE,
                       is_tour |-> form.is_tour \in TourFlagsOn,
                       tour_category |-> clean_text(form.tour_category, 80),
                       tour_best_time |-> clean_text(form.tour_best_time, 80)]]

\* the 3d branch of upload
upload_3d(owner_oid, form, lat, lng) ==
    LET file == form.model
        link == form.model_link
        doc(glb_url) ==
            [ownerId |-> owner_oid,
             type |-> <<"3d">>,
             name |-> clean_text(form.name, 100),
             city |-> clean_text(form.city, 50),
             country |-> clean_text(form.country, 50),
             description |-> clean_text(form.description, 500),
             lat |-> lat.v,
             lng |-> lng.v,
             glbUrl |-> glb_url,
             likes |-> 0,
             createdAt |-> now,
             updatedAt |-> now,
             status |-> <<"published">>,
             deleted |-> FALSE]
    IN  IF IsFile(file)
        THEN IF file.size > MAX_GLB_SIZE THEN Rejected("glb_size")
             ELSE IF ~file.stored THEN Rejected("glb_failed")
             ELSE [note |-> "created", doc |-> doc(StoredUrl(file))]
        ELSE IF Truthy(link) THEN [note |-> "created", doc |-> doc(Strip(link))]
        ELSE Rejected("no_model")

\* the checks of lat and lng in upload
\* a range test with the two bounds exchanged
UploadLatLngAccepted_Exchanged(lat, lng) == LatLngInRange(lng, lat)

UploadLatLngAccepted(lat, lng) == LatLngInRange(lat, lng)

\* the POST branch of upload: the document to insert, or why there is none
upload_post(owner_oid, form) ==
    LET lat == float(form.lat)
        lng == float(form.lng)
    IN  IF ~lat.ok \/ ~lng.ok THEN Rejected("invalid_latlng")
        ELSE IF ~UploadLatLngAccepted(lat, lng) THEN Rejected("latlng_out_of_range")
        ELSE IF form.street_type = <<"video">> THEN upload_video(owner_oid, form, lat, lng)
        ELSE IF form.street_type = <<"3d">> THEN upload_3d(owner_oid, form, lat, lng)
        ELSE Rejected("invalid_type")

upload(s, method, form) ==
    /\ IF protect_protected_routes("upload", s) \/ current_user(s) = NoDoc
       THEN /\ RememberAndRedirectForm("upload", s, None, method, form)
            /\ UNCHANGED streets
       ELSE IF method = "POST"
       THEN LET r == upload_post(ObjectId(current_user(s)._id), form) IN
            IF r.doc = NoDoc
            THEN /\ resp' = Posted(redirect("upload", s, None, Path("upload", None), r.note),
                                    form)
                 /\ UNCHANGED <<streets, session>>
            ELSE /\ \E oid \in DOMAIN streets :
                        /\ streets[oid] = NoDoc
                        /\ streets' = [streets EXCEPT ![oid] = r.doc]
                 /\ resp' = Posted(redirect("upload", s, None, Path("dashboard", None),
                                             r.note), form)
                 /\ UNCHANGED session
       ELSE /\ resp' = Response("upload", s, None, 200, None, "form", NoBody)
            /\ UNCHANGED <<streets, session>>
    /\ UNCHANGED <<users, now, cache, geo, accountVars, flightVars>>

----------------------------------------------------------------------------
(* Dashboard, edit, delete *)

\* {"deleted": False}, with ownerId for a user who is not an admin
\* a dashboard query that lists the deleted streets too
DashboardQuery_WithDeleted(user) ==
    IF is_admin_user(user) THEN <<>> ELSE [ownerId |-> ObjectId(user._id)]

\* the query of the dashboard
DashboardQuery(user) ==
    IF is_admin_user(user) THEN [deleted |-> FALSE]
    ELSE [deleted |-> FALSE, ownerId |-> ObjectId(user._id)]

dashboard(s) ==
    /\ IF protect_protected_routes("dashboard", s) \/ current_user(s) = NoDoc
       THEN RememberAndRedirect("dashboard", s, None)
       ELSE /\ resp' = Response("dashboard", s, None, 200, None, "page",
                                [streets |-> Find(streets, DashboardQuery(current_user(s))),
                                 is_admin |-> is_admin_user(current_user(s))])
            /\ UNCHANGED session
    /\ UNCHANGED <<users, streets, now, cache, geo, accountVars, flightVars>>

\* find_one / update_one with {"_id": oid} merged into the owner scope
MatchesById(oid, q) == oid \in DOMAIN streets /\ Matches(streets[oid], q)

\* an edit that sets the three tour fields whatever the form holds
EditTextFields_AllTour(form) ==
    [name |-> clean_text(form.name, 100),
     city |-> clean_text(form.city, 50),
     country |-> clean_text(form.country, 50),
     category |-> clean_text(form.category, 80),
     description |-> clean_text(form.description, 500),
     is_tour |-> form.is_tour \in TourFlagsOn,
     tour_category |-> clean_text(form.tour_category, 80),
     tour_best_time |-> clean_text(form.tour_best_time, 80)]

\* the fields an edit POST sets, lat and lng aside
EditTextFields(form) ==
    [name |-> clean_text(form.name, 100),
     city |-> clean_text(form.city, 50),
     country |-> clean_text(form.country, 50),
     category |-> clean_text(form.category, 80),
     description |-> clean_text(form.description, 500)]
    @@ (IF form.is_tour # None
        THEN [is_tour |-> form.is_tour \in TourFlagsOn] ELSE <<>>)
    @@ (IF form.tour_category # None
        THEN [tour_category |-> clean_text(form.tour_category, 80)] ELSE <<>>)
    @@ (IF form.tour_best_time # None
        THEN [tour_best_time |-> clean_text(form.tour_best_time, 80)] ELSE <<>>)

\* an edit scope that leaves the owner out
EditScope_AnyOwner(user) == [deleted |-> FALSE]

\* the query of the find_one in edit_street, _id aside
EditScope(user) ==
    IF is_admin_user(user) THEN [deleted |-> FALSE]
    ELSE [deleted |-> FALSE, ownerId |-> ObjectId(user._id)]

\* an edit that takes any number for lat and lng
EditLatLngAccepted_AnyNumber(lat, lng) == lat.ok /\ lng.ok

\* the try block of edit_street: both are numbers, and within range
EditLatLngAccepted(lat, lng) == lat.ok /\ lng.ok /\ LatLngInRange(lat, lng)

edit_street(s, street_id, method, form) ==
    /\ IF protect_protected_routes("edit_street", s) \/ current_user(s) = NoDoc
       THEN /\ RememberAndRedirectForm("edit_street", s, street_id, method, form)
            /\ UNCHANGED streets
       ELSE /\ UNCHANGED session
            /\ IF ~ValidOid(street_id)
               THEN /\ resp' = IF method = "POST"
                               THEN Posted(abort("edit_street", s, street_id, 404,
                                                 "invalid_id"), form)
                               ELSE abort("edit_street", s, street_id, 404, "invalid_id")
                    /\ UNCHANGED streets
               ELSE LET oid == ObjectId(street_id)
                        lat == float(form.lat)
                        lng == float(form.lng)
                    IN  IF ~MatchesById(oid, EditScope(current_user(s)))
                        THEN /\ resp' = IF method = "POST"
                                        THEN Posted(abort("edit_street", s, street_id, 404,
                                                          "not_found"), form)
                                        ELSE abort("edit_street", s, street_id, 404,
                                                   "not_found")
                             /\ UNCHANGED streets
                        ELSE IF method # "POST"
                        THEN /\ resp' = Response("edit_street", s, street_id, 200, None, "form",
                                                 [street |-> WithId(streets, oid)])
                             /\ UNCHANGED streets
                        ELSE IF ~EditLatLngAccepted(lat, lng)
                        THEN /\ resp' = Posted(redirect("edit_street", s, street_id,
                                                 Path("edit_street", street_id),
                                                 "invalid_latlng"), form)
                             /\ UNCHANGED streets
                        ELSE /\ streets' = [streets EXCEPT ![oid] =
                                    [updatedAt |-> now] @@ [lat |-> lat.v, lng |-> lng.v]
                                        @@ EditTextFields(form) @@ @]
                             /\ resp' = Posted(redirect("edit_street", s, street_id,
                                                 Path("dashboard", None), "updated"), form)
    /\ UNCHANGED <<users, now, cache, geo, accountVars, flightVars>>

\* a delete that takes the deleted streets too
DeleteScope_AnyState(user) ==
    IF is_admin_user(user) THEN <<>> ELSE [ownerId |-> ObjectId(user._id)]

\* the query of the update_one in delete_street, _id aside
DeleteScope(user) ==
    IF is_admin_user(user) THEN [deleted |-> FALSE]
    ELSE [deleted |-> FALSE, ownerId |-> ObjectId(user._id)]

delete_street(s, street_id) ==
    /\ IF protect_protected_routes("delete_street", s) \/ current_user(s) = NoDoc
       THEN /\ RememberAndRedirect("delete_street", s, street_id)
            /\ UNCHANGED streets
       ELSE /\ UNCHANGED session
            /\ IF ~ValidOid(street_id)
               THEN /\ resp' = abort("delete_street", s, street_id, 404, "invalid_id")
                    /\ UNCHANGED streets
               ELSE LET oid == ObjectId(street_id) IN
                    IF ~MatchesById(oid, DeleteScope(current_user(s)))
                    THEN /\ resp' = abort("delete_street", s, street_id, 404, "not_found")
                         /\ UNCHANGED streets
                    ELSE /\ streets' = [streets EXCEPT ![oid] =
                                [deleted |-> TRUE, deletedAt |-> now, updatedAt |-> now] @@ @]
                         /\ resp' = redirect("delete_street", s, street_id,
                                             Path("dashboard", None), "deleted")
    /\ UNCHANGED <<users, now, cache, geo, accountVars, flightVars>>

----------------------------------------------------------------------------
(* Public pages *)

\* candidate.get("deleted", False)
IsDeleted(doc) == IF "deleted" \in DOMAIN doc THEN doc.deleted ELSE FALSE

\* the body of a world or list page
Page(template, list, selected_street, street_error) ==
    [template |-> template, streets |-> list,
     selected_street |-> selected_street, street_error |-> street_error]

index(s) ==
    /\ ~protect_protected_routes("index", s)
    /\ resp' = Response("index", s, None, 200, None, "page",
                        [template |-> "index.html",
                         streets |-> Find(streets, published_not_deleted(NoExtra)),
                         tour_streets |-> Find(streets, published_not_deleted(
                                              [type |-> <<"video">>, is_tour |-> TRUE])),
                         selected_street |-> NoDoc,
                         street_error |-> "none"])
    /\ UNCHANGED <<users, session, streets, now, cache, geo, accountVars, flightVars>>

\* the test of the generic world page on the street asked for
WorldAvailable(raw_doc) ==
    ~(Get(raw_doc, "status") # <<"published">> \/ IsDeleted(raw_doc))

WorldTemplate(mode) ==
    CASE mode = <<"walk">> -> "world.html"
      [] mode = <<"drive">> -> "drive_world.html"
      [] mode = <<"fly">> -> "fly_world.html"
      [] mode = <<"sit">> -> "sit_world.html"
      [] OTHER -> "world.html"

world(s, street_id) ==
    /\ ~protect_protected_routes("world", s)
    /\ LET all == Find(streets, published_not_deleted(NoExtra))
           raw_doc == get_street_by_id(street_id)
           street_error == IF ~Truthy(street_id) THEN "none"
                           ELSE IF raw_doc = NoDoc THEN "not_found"
                           ELSE IF ~WorldAvailable(raw_doc) THEN "unavailable"
                           ELSE "none"
           selected == IF Truthy(street_id) /\ raw_doc # NoDoc /\ WorldAvailable(raw_doc)
                       THEN raw_doc ELSE NoDoc
           mode == IF "mode" \in DOMAIN selected THEN selected.mode ELSE <<"walk">>
       IN  IF selected # NoDoc
           THEN resp' = Response("world", s, street_id, 200, None, "selected",
                                 Page(WorldTemplate(mode),
                                      Find(streets, published_not_deleted([mode |-> mode])),
                                      selected, street_error))
           ELSE resp' = Response("world", s, street_id, 200, None, "list",
                                 Page("world.html", all, NoDoc, street_error))
    /\ UNCHANGED <<users, session, streets, now, cache, geo, accountVars, flightVars>>

\* the listing of a mode's world page; the walk world shows the 3d streets too
ModeWorldStreets(mode) ==
    IF mode = <<"walk">>
    THEN Find(streets, published_not_deleted([type |-> <<"3d">>]))
         \cup Find(streets, published_not_deleted([type |-> <<"video">>, mode |-> mode]))
    ELSE Find(streets, published_not_deleted([type |-> <<"video">>, mode |-> mode]))

\* is_ok of a mode's world page
ModeWorldOk(candidate, mode) ==
    /\ Get(candidate, "status") = <<"published">>
    /\ ~IsDeleted(candidate)
    /\ IF mode = <<"walk">>
       THEN \/ Get(candidate, "type") = <<"3d">>
            \/ (Get(candidate, "type") = <<"video">> /\ Get(candidate, "mode") = mode)
       ELSE Get(candidate, "type") = <<"video">> /\ Get(candidate, "mode") = mode

\* world_walk, world_drive, world_fly and world_sit differ in the mode only
ModeWorld(ep, mode, s, street_id) ==
    /\ ~protect_protected_routes(ep, s)
    /\ LET candidate == get_street_by_id(street_id)
           is_ok == candidate # NoDoc /\ ModeWorldOk(candidate, mode)
       IN  resp' = Response(ep, s, street_id, 200, None, "page",
                            Page(WorldTemplate(mode), ModeWorldStreets(mode),
                                 IF Truthy(street_id) /\ is_ok THEN candidate ELSE NoDoc,
                                 IF ~Truthy(street_id) THEN "none"
                                 ELSE IF candidate = NoDoc THEN "not_found"
                                 ELSE IF is_ok THEN "none"
                                 ELSE "unavailable"))
    /\ UNCHANGED <<users, session, streets, now, cache, geo, accountVars, flightVars>>

world_walk(s, street_id) == ModeWorld("world_walk", <<"walk">>, s, street_id)

world_drive(s, street_id) == ModeWorld("world_drive", <<"drive">>, s, street_id)

world_fly(s, street_id) == ModeWorld("world_fly", <<"fly">>, s, street_id)

world_sit(s, street_id) == ModeWorld("world_sit", <<"sit">>, s, street_id)

distinct_categories_for_mode(mode) ==
    {d.category : d \in {x \in Find(streets, [type |-> <<"video">>, mode |-> mode,
                                              status |-> <<"published">>,
                                              deleted |-> FALSE]) :
                             Truthy(x.category)}}

\* a list page that takes the videos of every mode
ListQuery_AnyMode(mode, category_arg) == published_not_deleted([type |-> <<"video">>])

\* the query of a list page
ListQuery(mode, category_arg) ==
    LET stripped == IF category_arg = None THEN <<>> ELSE Strip(category_arg)
        category == IF stripped = <<>> THEN None ELSE stripped
        base == published_not_deleted([type |-> <<"video">>, mode |-> mode])
    IN  IF Truthy(category) /\ Lower(category) # <<"a", "l", "l">>
        THEN [category |-> category] @@ base
        ELSE base

\* walk, drive, fly and sit differ in the mode only
ModeList(ep, mode, s, category_arg) ==
    /\ ~protect_protected_routes(ep, s)
    /\ resp' = Response(ep, s, category_arg, 200, None, "page",
                        [template |-> ep,
                         streets |-> Find(streets, ListQuery(mode, category_arg)),
                         categories |-> distinct_categories_for_mode(mode),
                         selected_street |-> NoDoc,
                         street_error |-> "none"])
    /\ UNCHANGED <<users, session, streets, now, cache, geo, accountVars, flightVars>>

walk(s, category_arg) == ModeList("walk", <<"walk">>, s, category_arg)

drive(s, category_arg) == ModeList("drive", <<"drive">>, s, category_arg)

fly(s, category_arg) == ModeList("fly", <<"fly">>, s, category_arg)

sit(s, category_arg) == ModeList("sit", <<"sit">>, s, category_arg)

----------------------------------------------------------------------------
(* Admin pages *)

\* admin_required: "login" when nobody is signed in, "forbidden" for a user
\* who is not an admin, "pass" otherwise
\* a decorator that asks for a signed-in user and no more
admin_required_AnyUser(s) == IF current_user(s) = NoDoc THEN "login" ELSE "pass"

admin_required(s) ==
    IF current_user(s) = NoDoc THEN "login"
    ELSE IF ~is_admin_user(current_user(s)) THEN "forbidden"
    ELSE "pass"

\* what the decorator answers when it does not pass the request on
AdminRefusal(ep, s, arg) ==
    IF admin_required(s) = "login"
    THEN RememberAndRedirect(ep, s, arg)
    ELSE /\ resp' = abort(ep, s, arg, 403, "forbidden")
         /\ UNCHANGED session

\* admin_dashboard, admin_users and admin_streets read only
AdminPage(ep, s, body) ==
    /\ ~protect_protected_routes(ep, s)
    /\ IF admin_required(s) # "pass"
       THEN AdminRefusal(ep, s, None)
       ELSE /\ resp' = Response(ep, s, None, 200, None, "page", body)
            /\ UNCHANGED session
    /\ UNCHANGED <<users, streets, now, cache, geo, accountVars, flightVars>>

AllDocs(coll) == {WithId(coll, o) : o \in {x \in DOMAIN coll : coll[x] # NoDoc}}

admin_dashboard(s) ==
    AdminPage("admin_dashboard", s,
              [total_users |-> Cardinality(AllDocs(users)),
               total_streets |-> Cardinality(Find(streets, [deleted |-> FALSE])),
               total_deleted |-> Cardinality(Find(streets, [deleted |-> TRUE]))])

admin_users(s) == AdminPage("admin_users", s, [users |-> AllDocs(users)])

admin_streets(s) == AdminPage("admin_streets", s, [streets |-> AllDocs(streets)])

\* users_collection.update_one({"_id": oid}, {"$set": {"role": role}})
SetRole(oid, role) ==
    IF oid \in DOMAIN users /\ users[oid] # NoDoc
    THEN [users EXCEPT ![oid].role = role]
    ELSE users

\* admin_make_user_admin and admin_make_admin_user_normal differ in the role only
AdminSetRole(ep, role, s, user_id) ==
    /\ ~protect_protected_routes(ep, s)
    /\ IF admin_required(s) # "pass"
       THEN /\ AdminRefusal(ep, s, user_id)
            /\ UNCHANGED users
       ELSE /\ UNCHANGED session
            /\ IF ~ValidOid(user_id)
               THEN /\ resp' = abort(ep, s, user_id, 404, "invalid_id")
                    /\ UNCHANGED users
               ELSE /\ users' = SetRole(ObjectId(user_id), role)
                    /\ resp' = redirect(ep, s, user_id, Path("admin_users", None), "role_set")
    /\ UNCHANGED <<streets, now, cache, geo, accountVars, flightVars>>

admin_make_user_admin(s, user_id) ==
    AdminSetRole("admin_make_user_admin", <<"admin">>, s, user_id)

admin_make_admin_user_normal(s, user_id) ==
    AdminSetRole("admin_make_admin_user_normal", <<"user">>, s, user_id)

----------------------------------------------------------------------------
(* Geocoding with a cache and retries, and the price of a journey.  The   *)
(* clock counts hours; a request is short against an hour.                *)

\* NOMINATIM_MAX_ATTEMPTS and, in tenths of a second, NOMINATIM_BASE_SLEEP
max_attempts == 4
base_sleep == 6

\* the lifetimes of a cached miss and of a cached place, in hours
NegativeTtl == 6
PositiveTtl == 720

\* a geocode_place that found no place returns None
NoResult == [none |-> TRUE]

\* query.strip().lower()
cache_key_for_query(query) == Lower(Strip(query))

RECURSIVE Pow2(_)
Pow2(n) == IF n <= 0 THEN 1 ELSE 2 * Pow2(n - 1)

\* a sleep that grows by base_sleep with each attempt
sleep_s_Linear(attempt) == base_sleep * attempt

\* base_sleep * (2 ** (attempt - 1))
sleep_s(attempt) == base_sleep * Pow2(attempt - 1)

\* the place the geocoding service knows under a name
Place(key) ==
    CASE key = <<"d">> -> [lat |-> <<"2", "5">>, lon |-> <<"5", "5">>,
                           display_name |-> <<"Dubai">>]
      [] OTHER -> [lat |-> <<"4", "9">>, lon |-> <<"2">>, display_name |-> <<"Paris">>]

\* What one call of the service can come to: a status of 429, 500, 502, 503
\* or 504; an exception of requests.get, of raise_for_status or of res.json;
\* no result; the place; the place with a lat that is no number.
Answers(query) ==
    {[kind |-> "status"], [kind |-> "error"],
     [kind |-> "results", results |-> <<>>],
     [kind |-> "results", results |-> <<Place(cache_key_for_query(query))>>],
     [kind |-> "results",
      results |-> <<[Place(cache_key_for_query(query)) EXCEPT !.lat = <<"x">>]>>]}

\* a distance that is never 0
haversine_km_Apart(lat1, lon1, lat2, lon2) == 5271

\* the great-circle distance, to the kilometre, between the places above
haversine_km(lat1, lon1, lat2, lon2) ==
    IF lat1 = lat2 /\ lon1 = lon2 THEN 0
    ELSE IF {<<lat1, lon1>>, <<lat2, lon2>>} = {<<25, 55>>, <<49, 2>>} THEN 5271
    ELSE 0 - 1

\* a rounding that drops the fraction
Round_Down(n, d) == n \div d

\* round(n / d), halves to the even side, for n >= 0 and d > 0
Round(n, d) ==
    LET q == n \div d
        r == n % d
    IN  IF 2 * r < d THEN q
        ELSE IF 2 * r > d THEN q + 1
        ELSE IF q % 2 = 0 THEN q ELSE q + 1

\* the price range of a distance in whole kilometres; approx is in hundredths
estimate_price_aed(distance_km) ==
    LET approx == IF distance_km <= 0 THEN 40000
                  ELSE IF distance_km <= 2000 THEN 20000 + distance_km * 45
                  ELSE 20000 + 2000 * 45 + (distance_km - 2000) * 35
    IN  [currency |-> <<"AED">>,
         low |-> Round(approx * 8, 10000) * 10,
         high |-> Round(approx * 12, 10000) * 10,
         mid |-> Round(approx, 1000) * 10]

\* the state of the price request in progress, or of the one served last:
\* which of its two lookups is running, the attempt of the retry loop and
\* its last_exc, what the lookups returned, the calls made to the service,
\* the tenths of a second slept, and the return statement each lookup left
\* geocode_place by
IdleGeo ==
    [pc |-> "idle", origin |-> None, destination |-> None, which |-> "from",
     attempt |-> 0, last_exc |-> "none", geo_from |-> NoResult,
     geo_to |-> NoResult, calls |-> 0,
     slept |-> 0, exit |-> [from |-> "unset", to |-> "unset"]]

\* payload.get("origin") or payload.get("from")
Either(a, b) == IF Truthy(a) THEN a ELSE b

\* the query of the lookup that is running
Query(g) == IF g.which = "from" THEN g.origin ELSE g.destination

\* a cache check that takes a cached miss for no entry
CacheHit_TruthyData(c, query) ==
    /\ cache_key_for_query(query) \in DOMAIN c
    /\ c[cache_key_for_query(query)] # NoDoc
    /\ "data" \in DOMAIN c[cache_key_for_query(query)]
    /\ c[cache_key_for_query(query)].data # NoResult

\* cached and ("data" in cached)
CacheHit(c, query) ==
    /\ cache_key_for_query(query) \in DOMAIN c
    /\ c[cache_key_for_query(query)] # NoDoc
    /\ "data" \in DOMAIN c[cache_key_for_query(query)]

\* geocode_cache.update_one({"q": q}, {"$set": ...}, upsert=True)
CacheSet(c, query, data, ttl) ==
    [c EXCEPT ![cache_key_for_query(query)] =
        [q |-> cache_key_for_query(query), data |-> data, expiresAt |-> now + ttl]]

\* the request is answered
Answered(g, c, r, status, note, body) ==
    /\ geo' = [g EXCEPT !.pc = "idle"]
    /\ cache' = c
    /\ resp' = [r EXCEPT !.status = status, !.note = note, !.body = body]

\* the request waits for the service to answer the call of the lookup running
Waiting(g, c, r) ==
    /\ geo' = [g EXCEPT !.pc = "lookup"]
    /\ cache' = c
    /\ resp' = [r EXCEPT !.status = 0, !.note = "pending", !.body = NoBody]

\* api_price once both lookups have returned
Priced(g, c, r, geo_to) ==
    IF g.geo_from = NoResult \/ geo_to = NoResult
    THEN Answered(g, c, r, 404, "place_not_found", NoBody)
    ELSE LET distance_km == haversine_km(g.geo_from.lat, g.geo_from.lng,
                                         geo_to.lat, geo_to.lng)
         IN  Answered(g, c, r, 200, "priced",
                      [origin_formatted |-> g.geo_from.display_name,
                       destination_formatted |-> geo_to.display_name,
                       distance_km |-> distance_km,
                       price |-> estimate_price_aed(distance_km)])

\* geocode_place(destination) from its start to its first call of the service
LookupTo(g, c, r) ==
    IF CacheHit(c, g.destination)
    THEN Priced([g EXCEPT !.exit.to = "cached",
                          !.geo_to = c[cache_key_for_query(g.destination)].data], c, r,
                c[cache_key_for_query(g.destination)].data)
    ELSE Waiting([g EXCEPT !.attempt = 1, !.last_exc = "none"], c, r)

\* a lookup returns value by the return statement site
Returned(g, c, r, value, site) ==
    IF g.which = "from"
    THEN LookupTo([g EXCEPT !.which = "to", !.geo_from = value, !.exit.from = site], c, r)
    ELSE Priced([g EXCEPT !.exit.to = site, !.geo_to = value], c, r, value)

\* geocode_place(origin) from its start to its first call of the service
LookupFrom(g, c, r) ==
    IF CacheHit(c, g.origin)
    THEN Returned(g, c, r, c[cache_key_for_query(g.origin)].data, "cached")
    ELSE Waiting([g EXCEPT !.attempt = 1, !.last_exc = "none"], c, r)

\* the end of the retry loop: raise last_exc, which api_price answers 502, or
\* return None
Exhausted(g, c, r) ==
    IF g.last_exc # "none"
    THEN Answered([g EXCEPT !.exit[g.which] = "raised"], c, r, 502, "unavailable", NoBody)
    ELSE Returned(g, c, r, NoResult, "exhausted")

\* a retry that caches a miss for the query that failed
Retry_CachesMiss(g, c, r) ==
    LET slept == [g EXCEPT !.slept = @ + sleep_s(g.attempt)]
        missed == CacheSet(c, Query(g), NoResult, NegativeTtl)
    IN  IF g.attempt < max_attempts
        THEN Waiting([slept EXCEPT !.attempt = @ + 1], missed, r)
        ELSE Exhausted(slept, missed, r)

\* time.sleep(sleep_s), then the next attempt if there is one
Retry(g, c, r) ==
    LET slept == [g EXCEPT !.slept = @ + sleep_s(g.attempt)]
    IN  IF g.attempt < max_attempts
        THEN Waiting([slept EXCEPT !.attempt = @ + 1], c, r)
        ELSE Exhausted(slept, c, r)

\* POST /api/price: the request, up to its first call of the service
api_price(s, payload) ==
    /\ geo.pc = "idle"
    /\ ~protect_protected_routes("api_price", s)
    /\ LET origin == clean_text(Either(payload.origin, payload.from), 100)
           destination == clean_text(Either(payload.destination, payload.to), 100)
           asked == Posted(Response("api_price", s, None, 0, None, "pending", NoBody),
                           payload)
       IN  IF ~Truthy(origin) \/ ~Truthy(destination)
           THEN /\ resp' = [asked EXCEPT !.status = 400, !.note = "missing"]
                /\ geo' = IdleGeo
                /\ UNCHANGED cache
           ELSE LookupFrom([IdleGeo EXCEPT !.origin = origin,
                                           !.destination = destination], cache, asked)
    /\ UNCHANGED <<users, session, streets, now, accountVars, flightVars>>

\* one call of the service by the retry loop of geocode_place, with what the
\* answer leads to: a sleep and the next call, or the return of the lookup
\* and the rest of api_price up to the next call
geocode_place(answer) ==
    /\ geo.pc = "lookup"
    /\ answer \in Answers(Query(geo))
    /\ LET g == [geo EXCEPT !.calls = @ + 1]
           query == Query(geo)
       IN  IF answer.kind = "status" THEN Retry(g, cache, resp)
           ELSE IF answer.kind = "error"
           THEN Retry([g EXCEPT !.last_exc = "error"], cache, resp)
           ELSE IF answer.results = <<>>
           THEN Returned(g, CacheSet(cache, query, NoResult, NegativeTtl), resp,
                         NoResult, "no_results")
           ELSE LET first == answer.results[1]
                    lat == float(first.lat)
                    lon == float(first.lon)
                    data == [lat |-> lat.v, lng |-> lon.v,
                             display_name |-> IF "display_name" \in DOMAIN first
                                              THEN first.display_name ELSE query]
                IN  IF ~lat.ok \/ ~lon.ok
                    THEN Retry([g EXCEPT !.last_exc = "value_error"], cache, resp)
                    ELSE Returned(g, CacheSet(cache, query, data, PositiveTtl), resp,
                                  data, "found")
    /\ UNCHANGED <<users, session, streets, now, accountVars, flightVars>>

\* the store removes an entry whose expiresAt has passed
ttl_expire(key) ==
    /\ cache[key] # NoDoc
    /\ cache[key].expiresAt <= now
    /\ cache' = [cache EXCEPT ![key] = NoDoc]
    /\ UNCHANGED <<users, session, streets, now, resp, geo, accountVars, flightVars>>

----------------------------------------------------------------------------
(* Account services: the activity log and the password reset by emailed    *)
(* token.  A reset request is served in steps (find the token, update the  *)
(* password, delete the token), since two requests can be served at once.  *)

MaxLogs == 2

\* no request in flight
IdleReset == [pc |-> "idle"]

AccountInit ==
    /\ reset_tokens = [t \in Tokens |-> NoDoc]
    /\ activity_logs = <<>>
    /\ outbox = <<>>
    /\ resetting = [s \in Sessions |-> IdleReset]

\* the street id of a log entry: ObjectId(street_id) if street_id else None,
\* None as well on InvalidId
LogStreetOid(street_id) ==
    IF ~Truthy(street_id) THEN None
    ELSE IF ValidOid(street_id) THEN ObjectId(street_id) ELSE None

\* POST /api/activity with the JSON body data
log_activity(s, data) ==
    /\ Len(activity_logs) < MaxLogs
    /\ IF protect_protected_routes("log_activity", s)
       THEN /\ RememberAndRedirect("log_activity", s, None)
            /\ UNCHANGED activity_logs
       ELSE LET user == current_user(s) IN
            /\ resp' = Response("log_activity", s, None, 204, None,
                                IF user = NoDoc THEN "ignored" ELSE "logged", NoBody)
            /\ activity_logs' =
                  IF user = NoDoc THEN activity_logs
                  ELSE Append(activity_logs,
                              [userId |-> ObjectId(user._id),
                               streetId |-> LogStreetOid(data.street_id),
                               eventType |-> clean_text(data.event_type, 50),
                               mode |-> clean_text(data.mode, 10),
                               timestamp |-> now,
                               userAgent |-> Prefix(data.agent, 200),
                               extra |-> data.extra])
            /\ UNCHANGED session
    /\ UNCHANGED <<users, streets, now, cache, geo, reset_tokens, outbox, resetting,
                   flightVars>>

\* a token document that was deleted; uuid4 does not give its token again
Removed == [removed |-> TRUE]

\* reset_tokens.find_one({"token": token})
FindToken(token) ==
    IF token \in DOMAIN reset_tokens /\ Matches(reset_tokens[token], [token |-> token])
    THEN [_id |-> token] @@ reset_tokens[token]
    ELSE NoDoc

\* a handler that issues a token whoever asks
ResetIssued_Always(uid) == TRUE

\* if user: a token is issued and mailed
ResetIssued(uid) == uid # None

\* send_email: the message as the SMTP server takes it; it raises when the
\* service is not configured or the server fails, and the caller logs that
send_email(to_email, link, delivered) ==
    IF delivered THEN Append(outbox, [to |-> to_email, link |-> link]) ELSE outbox

\* /forgot-password
forgot_password(s, method, form, delivered) ==
    /\ ~protect_protected_routes("forgot_password", s)
    /\ IF method = "POST"
       THEN LET email == Lower(Strip(form.email))
                uid == FindUserByEmail(email)
            IN  /\ resp' = Posted(redirect("forgot_password", s, None,
                                           Path("login", None), "reset_link_sent_if_exists"),
                                  form)
                /\ IF ResetIssued(uid)
                   THEN \E token \in Tokens :
                           /\ reset_tokens[token] = NoDoc
                           /\ reset_tokens' = [reset_tokens EXCEPT ![token] =
                                 [userId |-> uid, token |-> token,
                                  expiresAt |-> now + 1, createdAt |-> now]]
                           /\ outbox' = send_email(email, Path("reset_password", token),
                                                   delivered)
                   ELSE UNCHANGED <<reset_tokens, outbox>>
       ELSE /\ resp' = Response("forgot_password", s, None, 200, None, "form", NoBody)
            /\ UNCHANGED <<reset_tokens, outbox>>
    /\ UNCHANGED <<users, session, streets, now, cache, geo, activity_logs, resetting,
                   flightVars>>

\* /reset-password/<token>, up to the test of the request method: the token
\* is looked up and checked; a POST goes on to update the password
reset_password(s, token, method, form) ==
    /\ ~protect_protected_routes("reset_password", s)
    /\ resetting[s].pc = "idle"
    /\ LET rec == FindToken(token) IN
       IF rec = NoDoc \/ rec.expiresAt < now
       THEN /\ resp' = IF method = "POST"
                       THEN Posted(redirect("reset_password", s, token,
                                            Path("login", None), "invalid_or_expired"), form)
                       ELSE redirect("reset_password", s, token,
                                     Path("login", None), "invalid_or_expired")
            /\ UNCHANGED resetting
       ELSE IF method = "POST"
       THEN /\ resetting' = [resetting EXCEPT ![s] =
                                [pc |-> "update_one", token |-> token, rec |-> rec,
                                 form |-> form]]
            /\ UNCHANGED resp
       ELSE /\ resp' = Response("reset_password", s, token, 200, None, "form", NoBody)
            /\ UNCHANGED resetting
    /\ UNCHANGED <<users, session, streets, now, cache, geo, reset_tokens,
                   activity_logs, outbox, flightVars>>

\* users_collection.update_one({"_id": rec["userId"]}, {"$set": {"passwordHash": ...}})
reset_update_one(s) ==
    /\ resetting[s].pc = "update_one"
    /\ LET uid == resetting[s].rec.userId IN
       users' = IF uid \in DOMAIN users /\ users[uid] # NoDoc
                THEN [users EXCEPT ![uid].passwordHash =
                         generate_password_hash(resetting[s].form.password)]
                ELSE users
    /\ resetting' = [resetting EXCEPT ![s].pc = "delete_one"]
    /\ UNCHANGED <<session, streets, now, resp, cache, geo, reset_tokens,
                   activity_logs, outbox, flightVars>>

\* reset_tokens.delete_one({"_id": rec["_id"]}), and the answer
reset_delete_one(s) ==
    /\ resetting[s].pc = "delete_one"
    /\ LET id == resetting[s].rec._id IN
       reset_tokens' = IF reset_tokens[id] \notin {NoDoc, Removed}
                       THEN [reset_tokens EXCEPT ![id] = Removed]
                       ELSE reset_tokens
    /\ resp' = Posted(redirect("reset_password", s, resetting[s].token,
                               Path("login", None), "password_updated"),
                      resetting[s].form)
    /\ resetting' = [resetting EXCEPT ![s] = IdleReset]
    /\ UNCHANGED <<users, session, streets, now, cache, geo, activity_logs, outbox,
                   flightVars>>

\* the TTL index on expiresAt removes a token that expired
reset_ttl_expire(token) ==
    /\ reset_tokens[token] \notin {NoDoc, Removed}
    /\ reset_tokens[token].expiresAt <= now
    /\ reset_tokens' = [reset_tokens EXCEPT ![token] = Removed]
    /\ UNCHANGED <<users, session, streets, now, resp, cache, geo,
                   activity_logs, outbox, resetting, flightVars>>

\* int(v): ok is FALSE where Python raises ValueError
int(v) == [float(v) EXCEPT !.ok = float(v).ok /\ ~float(v).nan]

\* start_date_for_range(days), the clock counting hours; None is all time
start_date_for_range(days) == IF days <= 0 THEN NoTime ELSE now - 24 * days

\* s.get(k) or default
OrElse(doc, k, default) == IF Truthy(Get(doc, k)) THEN doc[k] ELSE default

\* an entry of streets_safe
SummaryStreet(doc) ==
    [_id |-> doc._id,
     name |-> OrElse(doc, "name", <<"Untitled">>),
     city |-> OrElse(doc, "city", <<>>),
     country |-> OrElse(doc, "country", <<>>),
     type |-> Get(doc, "type"),
     mode |-> Get(doc, "mode"),
     likes |-> doc.likes,
     createdAt |-> doc.createdAt,
     lat |-> doc.lat,
     lng |-> doc.lng,
     status |-> doc.status]

RECURSIVE SumLikes(_)
SumLikes(docs) ==
    IF docs = {} THEN 0
    ELSE LET doc == CHOOSE d \in docs : TRUE
         IN  doc.likes + SumLikes(docs \ {doc})

\* sum(1 for s in streets if is_video_mode(s, m))
ModeCount(docs, m) ==
    Cardinality({d \in docs : Get(d, "type") = <<"video">> /\ Get(d, "mode") = m})

\* a summary that asks for the streets of every owner
SummaryQuery_Everyone(user) == [deleted |-> FALSE]

\* query_streets of the summary
SummaryQuery(user) ==
    IF is_admin_user(user) THEN [deleted |-> FALSE]
    ELSE [deleted |-> FALSE, ownerId |-> ObjectId(user._id)]

\* the log entry e is within logs_query
InLogsQuery(e, user, since) ==
    /\ is_admin_user(user) \/ e.userId = ObjectId(user._id)
    /\ since = NoTime \/ e.timestamp >= since

RECURSIVE Reversed(_)
Reversed(seq) == IF seq = <<>> THEN <<>> ELSE Reversed(Tail(seq)) \o <<Head(seq)>>

\* an entry of recent: the event with the street of the summary it names
RecentEvent(e, docs) ==
    LET st == {d \in docs : d._id = e.streetId}
        of(k) == IF st = {} THEN None ELSE Get(CHOOSE d \in st : TRUE, k)
    IN  [eventType |-> e.eventType,
         mode |-> IF Truthy(e.mode) THEN e.mode ELSE of("mode"),
         timestamp |-> e.timestamp,
         streetId |-> e.streetId,
         streetName |-> of("name"),
         city |-> of("city"),
         country |-> of("country")]

\* GET /api/dashboard/summary?days=...; the chart of views per day and the
\* views per street, counted from the same events, are not in the body
api_dashboard_summary(s, days_arg) ==
    /\ ~protect_protected_routes("api_dashboard_summary", s)
    /\ LET user == current_user(s)
           days == int(IF days_arg = None THEN <<"3", "0">> ELSE days_arg)
           since == start_date_for_range(days.v)
           docs == Find(streets, SummaryQuery(user))
           events == SelectSeq(Reversed(activity_logs),
                               LAMBDA e : InLogsQuery(e, user, since))
       IN  resp' =
              IF user = NoDoc
              THEN Response("api_dashboard_summary", s, days_arg, 401, None,
                            "unauthorized", [error |-> "Unauthorized"])
              ELSE IF ~days.ok
              THEN abort("api_dashboard_summary", s, days_arg, 500, "value_error")
              ELSE Response("api_dashboard_summary", s, days_arg, 200, None, "summary",
                      [totals |-> [total_streets |-> Cardinality(docs),
                                   total_likes |-> SumLikes(docs),
                                   walk_count |-> ModeCount(docs, <<"walk">>),
                                   drive_count |-> ModeCount(docs, <<"drive">>),
                                   fly_count |-> ModeCount(docs, <<"fly">>),
                                   sit_count |-> ModeCount(docs, <<"sit">>),
                                   is_admin |-> is_admin_user(user)],
                       recent |-> [i \in DOMAIN events |-> RecentEvent(events[i], docs)],
                       streets |-> {SummaryStreet(d) : d \in docs},
                       user |-> [name |-> OrElse(user, "name", user.email),
                                 email |-> user.email,
                                 role |-> user.role,
                                 is_admin |-> is_admin_user(user),
                                 createdAt |-> user.createdAt,
                                 lastLoginAt |-> user.lastLoginAt]])
    /\ UNCHANGED <<users, session, streets, now, cache, geo, accountVars, flightVars>>

----------------------------------------------------------------------------
(* Inputs of the web requests *)

Methods == {"GET", "POST"}

\* a form nobody filled in
BlankUpload ==
    [street_type |-> None, mode |-> None, name |-> None, city |-> None,
     country |-> None, lat |-> None, lng |-> None, category |-> None,
     description |-> None, is_tour |-> None, tour_category |-> None,
     tour_best_time |-> None, thumbnail |-> NoFile, video |-> <<>>,
     video_links |-> None, model |-> NoFile, model_link |-> None]

GoodFile(name) == [filename |-> name, size |-> 1, stored |-> TRUE]

\* a drive video at (25, 55) with one pasted link
DriveUpload ==
    [BlankUpload EXCEPT !.street_type = <<"video">>, !.mode = <<"drive">>,
                        !.name = <<" ", "n">>, !.category = <<"art">>,
                        !.lat = <<"2", "5">>, !.lng = <<"5", "5">>,
                        !.video_links = <<"u1", ",", " ", "\n", "u2">>]

\* a video of no known mode, as a file, on the edge of the range
EdgeUpload ==
    [DriveUpload EXCEPT !.mode = <<"bike">>, !.video_links = None,
                        !.lat = <<"-", "9", "0">>, !.lng = <<" ", "1", "8", "0">>,
                        !.video = <<NoFile, GoodFile(<<"v", ".", "mp4">>)>>,
                        !.thumbnail = GoodFile(<<"t", ".", "P", "N", "G">>),
                        !.is_tour = <<"on">>]

\* a 3d model given as a link
ModelUpload ==
    [BlankUpload EXCEPT !.street_type = <<"3d">>, !.name = <<"m">>,
                        !.lat = <<"0">>, !.lng = <<"0">>,
                        !.model_link = <<"glb">>]

ValidUploads == {DriveUpload, EdgeUpload, ModelUpload}

\* uploads with lat or lng out of range, not a number, or missing
BadLatLngUploads ==
    {[DriveUpload EXCEPT !.lat = <<"9", "1">>],
     [DriveUpload EXCEPT !.lat = <<"-", "9", "1">>],
     [ModelUpload EXCEPT !.lng = <<"1", "8", "1">>],
     [ModelUpload EXCEPT !.lng = <<"-", "1", "8", "1">>],
     [DriveUpload EXCEPT !.lat = <<"nan">>],
     [DriveUpload EXCEPT !.lng = <<"x">>],
     [DriveUpload EXCEPT !.lat = <<>>],
     [ModelUpload EXCEPT !.lat = None]}

\* uploads with lat and lng in range that are rejected for another reason
OtherBadUploads ==
    {[DriveUpload EXCEPT !.street_type = <<"audio">>],
     [DriveUpload EXCEPT !.video_links = <<" ", ",", " ">>],
     [DriveUpload EXCEPT !.thumbnail = GoodFile(<<"t", ".", "e", "x", "e">>)],
     [DriveUpload EXCEPT !.thumbnail = [GoodFile(<<"t", ".", "p", "n", "g">>) EXCEPT !.size = 6]],
     [DriveUpload EXCEPT !.thumbnail = [GoodFile(<<"t", ".", "p", "n", "g">>) EXCEPT !.stored = FALSE]],
     [EdgeUpload EXCEPT !.video = <<[GoodFile(<<"v">>) EXCEPT !.size = 101]>>],
     [EdgeUpload EXCEPT !.video = <<GoodFile(<<"v">>), [GoodFile(<<"w">>) EXCEPT !.stored = FALSE]>>],
     [ModelUpload EXCEPT !.model_link = None],
     [ModelUpload EXCEPT !.model = [GoodFile(<<"m", ".", "glb">>) EXCEPT !.size = 51]],
     [ModelUpload EXCEPT !.model = [GoodFile(<<"m", ".", "glb">>) EXCEPT !.stored = FALSE]]}

UploadForms == ValidUploads \cup BadLatLngUploads \cup OtherBadUploads

BlankEdit ==
    [name |-> None, city |-> None, country |-> None, category |-> None,
     description |-> None, is_tour |-> None, tour_category |-> None,
     tour_best_time |-> None, lat |-> None, lng |-> None]

GoodEdit ==
    [BlankEdit EXCEPT !.name = <<"e">>, !.city = <<"c">>, !.lat = <<"9", "0">>,
                      !.lng = <<"-", "1", "8", "0">>, !.is_tour = <<"1">>]

EditForms ==
    {GoodEdit,
     [GoodEdit EXCEPT !.lat = <<"9", "1">>],
     [GoodEdit EXCEPT !.lng = None]}

\* category arguments of the list pages
CategoryArgs == {None, <<"art">>, <<"A", "l", "l">>, <<"zoo">>}

----------------------------------------------------------------------------
(* Initial states *)

\* the accounts of the deployment: the operator's own, whose role is set in
\* the database (no request creates an admin where there is none), and one
\* signed up
SeedUser(email, password, role) ==
    [email |-> email, name |-> email, passwordHash |-> generate_password_hash(password),
     createdAt |-> 0, lastLoginAt |-> NoTime, role |-> role]

SeedUsers(role1) ==
    [u \in UserIds |->
        CASE u = <<"1">> -> SeedUser(<<"x">>, <<"p">>, role1)
          [] u = <<"2">> -> SeedUser(<<"y">>, <<"q">>, <<"user">>)
          [] OTHER -> NoDoc]

\* a street as upload writes it
SeedStreet(owner, status) ==
    [upload_post(owner, DriveUpload).doc EXCEPT !.status = status]

SignedIn(uid) == [EmptySession EXCEPT !.user_id = uid]

NoResponse ==
    [seq |-> 0, ep |-> "none", sess |-> "none", arg |-> None, form |-> NoForm, status |-> 0,
     loc |-> None, note |-> "none", body |-> NoBody]

CacheKeys == {<<"d">>, <<"p">>}

GeoInit ==
    /\ cache = [k \in CacheKeys |-> NoDoc]
    /\ geo = IdleGeo

\* the credentials of user 1, with a space and a capital; those of user 2;
\* a wrong password; an unknown email
LoginForms ==
    {[email |-> <<" ", "X">>, password |-> <<"p">>],
     [email |-> <<"y">>, password |-> <<"q">>],
     [email |-> <<"x">>, password |-> <<"q">>],
     [email |-> <<"z">>, password |-> <<"p">>]}

\* a new account, and one under an email that is taken
SignupForms ==
    {[email |-> <<"Z", " ">>, name |-> <<" ", "z">>, password |-> <<"r">>],
     [email |-> <<"X">>, name |-> <<"x">>, password |-> <<"r">>]}

\* user_id in the URL of make-admin and make-user
UserIdArgs == {<<"1">>, <<"2">>, <<"3">>, <<"g">>}

BlankPayload == [origin |-> None, from |-> None, destination |-> None, to |-> None]

\* Dubai to Paris; Dubai to Dubai under the other two names of the fields;
\* a blank destination; no destination
PricePayloads ==
    {[BlankPayload EXCEPT !.origin = <<" ", "D">>, !.destination = <<"p">>],
     [BlankPayload EXCEPT !.from = <<"d">>, !.to = <<"d">>],
     [BlankPayload EXCEPT !.origin = <<"p">>, !.destination = <<" ">>],
     [BlankPayload EXCEPT !.origin = <<"d">>]}

----------------------------------------------------------------------------
(* Likes: one published street, two browsers *)

InitLike ==
    /\ now = 0
    /\ users = SeedUsers(<<"user">>)
    /\ session = [s \in Sessions |-> EmptySession]
    /\ streets = [o \in StreetOids |->
                     IF o = <<"a">> THEN SeedStreet(<<"2">>, <<"published">>) ELSE NoDoc]
    /\ resp = NoResponse
    /\ GeoInit
    /\ AccountInit
    /\ FlightInit

NextLike ==
    \/ \E s \in Sessions, street_id \in StreetIdStrings : like_street(s, street_id)
    \/ \E s \in Sessions : logout(s)

SpecLike == InitLike /\ [][NextLike]_vars

\* the request served last was a like of street_id by session s
LikeServed(s, street_id) ==
    /\ resp'.seq # resp.seq
    /\ resp'.ep = "like_street"
    /\ resp'.sess = s
    /\ resp'.arg = street_id

Likes(coll, oid) == LikesBody(coll, oid).likes

\* C1: a like of an existing street by a session that has not liked this
\* street_id raises likes by exactly 1, records the street_id in that session
\* alone and answers the new count; a like by a session that carries the
\* street_id already leaves likes as it is and answers the current count.  So
\* two likes in a row from one session add 1, and likes from two sessions
\* that have not liked yet add 2.
C1_LikeOncePerSession ==
    [][\A s \in Sessions, street_id \in StreetIdStrings :
          (LikeServed(s, street_id) /\ ValidOid(street_id)
              /\ streets[ObjectId(street_id)] # NoDoc)
          => LET oid == ObjectId(street_id) IN
             /\ resp'.status = 200
             /\ resp'.body.likes = Likes(streets', oid)
             /\ \A t \in Sessions \ {s} : session'[t] = session[t]
             /\ \A o \in StreetOids \ {oid} : streets'[o] = streets[o]
             /\ IF street_id \in session[s].liked
                THEN /\ Likes(streets', oid) = Likes(streets, oid)
                     /\ session' = session
                ELSE /\ Likes(streets', oid) = Likes(streets, oid) + 1
                     /\ street_id \in session'[s].liked
      ]_vars

\* both sessions have liked street a, which counts 2 likes, and the request
\* served last was a repeated like that added nothing
C1_Witness ==
    /\ resp.ep = "like_street"
    /\ resp.note = "already_liked"
    /\ resp.arg = <<"a">>
    /\ \A s \in Sessions : <<"a">> \in session[s].liked /\ <<"A">> \notin session[s].liked
    /\ streets[<<"a">>].likes = 2
    /\ resp.body.likes = 2

----------------------------------------------------------------------------
(* Specifications of the streets collection.  In each the two browsers are *)
(* signed in: s1 as the operator's account, s2 as user 2.                  *)

\* street_id arguments of the pages: none, an id, another id, a malformed one
PageStreetIds == {None, <<"a">>, <<"b">>, <<"g">>}

\* street_id in the URL of an edit or a delete
EditStreetIds == {<<"a">>, <<"b">>, <<"g">>}

BothSignedIn ==
    session = [s \in Sessions |-> IF s = "s1" THEN SignedIn(<<"1">>) ELSE SignedIn(<<"2">>)]

(* Uploads: an empty collection, every upload form *)

InitUpload ==
    /\ now = 0
    /\ users = SeedUsers(<<"user">>)
    /\ BothSignedIn
    /\ streets = [o \in StreetOids |-> NoDoc]
    /\ resp = NoResponse
    /\ GeoInit
    /\ AccountInit
    /\ FlightInit

NextUpload ==
    \/ \E s \in Sessions, form \in UploadForms : upload(s, "POST", form)
    \/ \E s \in Sessions : upload(s, "GET", BlankUpload)

SpecUpload == InitUpload /\ [][NextUpload]_vars

\* the request served in this step was a POST of form to upload by session s
UploadPosted(s, form) ==
    /\ resp'.seq # resp.seq
    /\ resp'.ep = "upload"
    /\ resp'.sess = s
    /\ resp'.form = form

\* the text is a number within [lo, hi]
NumberWithin(text, lo, hi) ==
    /\ float(text).ok
    /\ ~float(text).nan
    /\ lo <= float(text).v
    /\ float(text).v <= hi

\* the form is one of the valid uploads in everything but lat and lng
OtherwiseValid(form) ==
    \E good \in ValidUploads : [form EXCEPT !.lat = good.lat, !.lng = good.lng] = good

\* the ids of the documents of coll
Ids(coll) == {o \in DOMAIN coll : coll[o] # NoDoc}

\* C5: an upload by a signed-in user with lat within [-90, 90], lng within
\* [-180, 180], a known street type and its media present inserts exactly one
\* street, with likes 0, deleted false, status published and the uploader as
\* ownerId, and leaves the other streets alone; an upload whose lat or lng is
\* out of range or is not a number is answered with a redirect back to the
\* upload form and writes nothing.
C5_UploadInsertsOne ==
    [][\A s \in Sessions, form \in UploadForms :
          (UploadPosted(s, form) /\ current_user(s) # NoDoc)
          => IF NumberWithin(form.lat, 0 - 90, 90) /\ NumberWithin(form.lng, 0 - 180, 180)
             THEN OtherwiseValid(form)
                  => /\ Cardinality(Ids(streets') \ Ids(streets)) = 1
                     /\ \A o \in Ids(streets) : streets'[o] = streets[o]
                     /\ \A o \in Ids(streets') \ Ids(streets) :
                           /\ streets'[o].likes = 0
                           /\ streets'[o].deleted = FALSE
                           /\ streets'[o].status = <<"published">>
                           /\ streets'[o].ownerId = ObjectId(session[s].user_id)
             ELSE /\ streets' = streets
                  /\ resp'.status = 302
                  /\ resp'.loc = Path("upload", None)
      ]_vars

\* user 2 has uploaded the street on the edge of the range, (-90, 180), into
\* a collection that held one street of user 1
C5_Witness ==
    /\ resp.ep = "upload"
    /\ resp.sess = "s2"
    /\ resp.form = EdgeUpload
    /\ resp.note = "created"
    /\ \E o, p \in StreetOids :
          /\ o # p
          /\ streets[o] # NoDoc /\ streets[o].ownerId = <<"1">>
          /\ streets[p] # NoDoc /\ streets[p].ownerId = <<"2">>
          /\ streets[p].lat = 0 - 90 /\ streets[p].lng = 180
          /\ streets[p].likes = 0 /\ streets[p].deleted = FALSE

(* Browsing: uploads, deletions and every public page; street a is in the *)
(* collection from the start, published or as a draft written outside the *)
(* application (no handler sets a status other than published)            *)

InitBrowse ==
    /\ now = 0
    /\ users = SeedUsers(<<"admin">>)
    /\ BothSignedIn
    /\ \E status \in {<<"published">>, <<"draft">>} :
          streets = [o \in StreetOids |->
                        IF o = <<"a">> THEN SeedStreet(<<"2">>, status) ELSE NoDoc]
    /\ resp = NoResponse
    /\ GeoInit
    /\ AccountInit
    /\ FlightInit

NextBrowse ==
    \/ \E form \in ValidUploads : upload("s2", "POST", form)
    \/ \E s \in Sessions, street_id \in StreetOids : delete_street(s, street_id)
    \/ index("s1")
    \/ \E street_id \in PageStreetIds : world("s1", street_id)
    \/ \E street_id \in PageStreetIds : world_walk("s1", street_id)
    \/ \E street_id \in PageStreetIds : world_drive("s1", street_id)
    \/ \E street_id \in PageStreetIds : world_fly("s1", street_id)
    \/ \E street_id \in PageStreetIds : world_sit("s1", street_id)
    \/ \E category_arg \in CategoryArgs : walk("s1", category_arg)
    \/ \E category_arg \in CategoryArgs : drive("s1", category_arg)
    \/ \E category_arg \in CategoryArgs : fly("s1", category_arg)
    \/ \E category_arg \in CategoryArgs : sit("s1", category_arg)

SpecBrowse == InitBrowse /\ [][NextBrowse]_vars

\* the endpoints that take a street_id, and the other public listings
WorldEndpoints == {"world", "world_walk", "world_drive", "world_fly", "world_sit"}

ListEndpoints == {"index", "walk", "drive", "fly", "sit"}

\* the street is shown to the public: published and not deleted
Shown(doc) == doc.status = <<"published">> /\ doc.deleted = FALSE

\* the document shown is the stored one
Stored(doc) == doc._id \in StreetOids /\ WithId(streets, doc._id) = doc

\* the stored street a street_id names, NoDoc for a malformed or unknown id
Named(street_id) ==
    IF ValidOid(street_id) /\ Lower(street_id) \in StreetOids
    THEN streets[Lower(street_id)] ELSE NoDoc

\* C2: every street a public page (index, the world pages, the list pages)
\* returns, in its listing or as selected_street, is a stored street that is
\* published and not deleted; a world page asked for a street that exists
\* but is unpublished or deleted selects none and says 'unavailable', and
\* asked for an unknown or malformed street_id selects none and says
\* 'not_found'.
C2_PublicPagesShowPublishedOnly ==
    resp.ep \in WorldEndpoints \cup ListEndpoints
    => /\ \A doc \in resp.body.streets : Stored(doc) /\ Shown(doc)
       /\ resp.ep = "index"
          => \A doc \in resp.body.tour_streets : Stored(doc) /\ Shown(doc)
       /\ resp.body.selected_street # NoDoc
          => Stored(resp.body.selected_street) /\ Shown(resp.body.selected_street)
       /\ (resp.ep \in WorldEndpoints /\ Truthy(resp.arg))
          => /\ (Named(resp.arg) # NoDoc /\ ~Shown(Named(resp.arg)))
                => /\ resp.body.street_error = "unavailable"
                   /\ resp.body.selected_street = NoDoc
             /\ Named(resp.arg) = NoDoc
                => /\ resp.body.street_error = "not_found"
                   /\ resp.body.selected_street = NoDoc

\* the world page was asked for street a, which is published and deleted: it
\* says 'unavailable' and lists street b alone
C2_Witness ==
    /\ resp.ep = "world"
    /\ resp.arg = <<"a">>
    /\ streets[<<"a">>].status = <<"published">>
    /\ streets[<<"a">>].deleted = TRUE
    /\ resp.body.street_error = "unavailable"
    /\ resp.body.selected_street = NoDoc
    /\ {doc._id : doc \in resp.body.streets} = {<<"b">>}

(* Ownership: street a of user 2 and street b of the operator's account,  *)
(* as upload writes them; the operator's account is an admin or is not    *)

InitStreets ==
    /\ now = 0
    /\ \E role1 \in {<<"admin">>, <<"user">>} : users = SeedUsers(role1)
    /\ BothSignedIn
    /\ streets = [o \in StreetOids |->
                     IF o = <<"a">> THEN upload_post(<<"2">>, DriveUpload).doc
                     ELSE upload_post(<<"1">>, ModelUpload).doc]
    /\ resp = NoResponse
    /\ GeoInit
    /\ AccountInit
    /\ FlightInit

NextStreets ==
    \/ Tick
    \/ \E s \in Sessions, street_id \in EditStreetIds, form \in EditForms :
          edit_street(s, street_id, "POST", form)
    \/ \E s \in Sessions, street_id \in EditStreetIds :
          edit_street(s, street_id, "GET", BlankEdit)
    \/ \E s \in Sessions, street_id \in EditStreetIds : delete_street(s, street_id)
    \/ \E s \in Sessions : dashboard(s)
    \/ \E s \in Sessions : admin_streets(s)
    \/ index("s2")
    \/ \E street_id \in PageStreetIds : world("s2", street_id)

SpecStreets == InitStreets /\ [][NextStreets]_vars

\* the ids of the streets a response lists
Listed(r) == {doc._id : doc \in r.body.streets}

\* the ids of the streets that are soft-deleted
Deleted == {o \in Ids(streets) : streets[o].deleted}

\* the account of the session that made the request served last
Requester == current_user(resp.sess)

\* the public listings never hold a soft-deleted street
DeletedLeavePublicListings ==
    resp.ep \in {"index", "world"} => Listed(resp) \cap Deleted = {}

EditOrDeleteServed(s, street_id) ==
    /\ resp'.seq # resp.seq
    /\ resp'.ep \in {"edit_street", "delete_street"}
    /\ resp'.sess = s
    /\ resp'.arg = street_id

\* C4: an edit or a delete of a street, asked by a signed-in user who is not
\* the owner of the street and is not an admin, is answered 404 and leaves
\* every street as it was.
C4_StrangersGet404 ==
    [][\A s \in Sessions, street_id \in EditStreetIds :
          (/\ EditOrDeleteServed(s, street_id)
           /\ current_user(s) # NoDoc
           /\ current_user(s).role # <<"admin">>
           /\ Named(street_id) # NoDoc
           /\ Named(street_id).ownerId # current_user(s)._id)
          => /\ resp'.status = 404
             /\ streets' = streets
      ]_vars

\* user 1, who is no admin, has posted a valid edit of street a of user 2,
\* which is not deleted, after the clock has advanced, and got 404
C4_Witness ==
    /\ resp.ep = "edit_street"
    /\ resp.sess = "s1"
    /\ resp.arg = <<"a">>
    /\ resp.form = GoodEdit
    /\ resp.status = 404
    /\ users[<<"1">>].role = <<"user">>
    /\ streets[<<"a">>].ownerId = <<"2">>
    /\ streets[<<"a">>].deleted = FALSE
    /\ now = 1

\* C20: a street whose deleted flag is true keeps it true, keeps its
\* deletedAt and stays in the collection whatever request is served, and no
\* street leaves the collection; a delete request of a signed-in user for a
\* street that is deleted is answered 404 and changes nothing.
C20_DeletedStaysDeleted ==
    [][/\ \A o \in StreetOids :
             /\ streets[o] # NoDoc => streets'[o] # NoDoc
             /\ (streets[o] # NoDoc /\ streets[o].deleted)
                => /\ streets'[o].deleted
                   /\ streets'[o].deletedAt = streets[o].deletedAt
       /\ \A s \in Sessions, street_id \in EditStreetIds :
             (/\ EditOrDeleteServed(s, street_id)
              /\ resp'.ep = "delete_street"
              /\ current_user(s) # NoDoc
              /\ Named(street_id) # NoDoc
              /\ Named(street_id).deleted)
             => /\ resp'.status = 404
                /\ streets' = streets
      ]_vars

\* user 2 deleted street a, and an hour later asked again and got 404
C20_Witness ==
    /\ resp.ep = "delete_street"
    /\ resp.sess = "s2"
    /\ resp.arg = <<"a">>
    /\ resp.status = 404
    /\ streets[<<"a">>].ownerId = <<"2">>
    /\ streets[<<"a">>].deleted
    /\ streets[<<"a">>].deletedAt = 0
    /\ now = 1

----------------------------------------------------------------------------
(* Signing in: one browser that starts signed out or with the session of  *)
(* an account that is gone, and street a of user 1                        *)

InitAuth ==
    /\ now = 0
    /\ users = SeedUsers(<<"user">>)
    /\ \E first \in {EmptySession, SignedIn(<<"3">>)} :
          session = [s \in Sessions |-> IF s = "s1" THEN first ELSE EmptySession]
    /\ streets = [o \in StreetOids |->
                     IF o = <<"a">> THEN SeedStreet(<<"1">>, <<"published">>) ELSE NoDoc]
    /\ resp = NoResponse
    /\ GeoInit
    /\ AccountInit
    /\ FlightInit

NextAuth ==
    \/ \E form \in LoginForms : login("s1", "POST", form)
    \/ login("s1", "GET", BlankUpload)
    \/ logout("s1")
    \/ upload("s1", "POST", DriveUpload)
    \/ dashboard("s1")
    \/ \E method \in Methods : edit_street("s1", <<"a">>, method, GoodEdit)
    \/ delete_street("s1", <<"a">>)

SpecAuth == InitAuth /\ [][NextAuth]_vars

\* the endpoints of the streets that ask for a signed-in user
StreetEndpoints == {"upload", "dashboard", "edit_street", "delete_street"}

\* the form holds the email, trimmed and lower-cased, and the password of u
Credentials(form, u) ==
    /\ users[u] # NoDoc
    /\ users[u].email = Lower(Strip(form.email))
    /\ users[u].passwordHash = generate_password_hash(form.password)

\* C9: a request to upload, dashboard, edit_street or delete_street by a
\* session without a user that resolves is redirected to login, writes
\* nothing to the streets and leaves its path in the session; a login with
\* the credentials of a user redirects to the path the session holds, or to
\* the index when it holds none, and leaves no path in the session.
C9_LoginReturnsToRememberedPath ==
    [][\A s \in Sessions :
          /\ (/\ resp'.seq # resp.seq
               /\ resp'.sess = s
               /\ resp'.ep \in StreetEndpoints
               /\ current_user(s) = NoDoc)
              => /\ resp'.status = 302
                 /\ resp'.loc = Path("login", None)
                 /\ streets' = streets
                 /\ session'[s].next = Path(resp'.ep, resp'.arg)
          /\ \A u \in UserIds :
                (/\ resp'.seq # resp.seq
                 /\ resp'.sess = s
                 /\ resp'.ep = "login"
                 /\ resp'.form # NoForm
                 /\ Credentials(resp'.form, u))
                => /\ resp'.status = 302
                   /\ resp'.loc = IF session[s].next # None THEN session[s].next
                                   ELSE Path("index", None)
                   /\ session'[s].next = None
                   /\ session'[s].user_id = u
      ]_vars

\* a browser with the session of an account that is gone asked to edit
\* street a, and the login of user 1 that followed went to that page
C9_Witness ==
    /\ resp.ep = "login"
    /\ resp.sess = "s1"
    /\ resp.status = 302
    /\ resp.loc = Path("edit_street", <<"a">>)
    /\ session["s1"].user_id = <<"1">>
    /\ session["s1"].next = None
    /\ users[<<"1">>].lastLoginAt = 0
    /\ users[<<"3">>] = NoDoc

----------------------------------------------------------------------------
(* Roles: two browsers signed in as users 1 and 2, signups, logins, every *)
(* admin endpoint; user 1 is an admin from the start or is not            *)

InitAdmin ==
    /\ now = 0
    /\ \E role1 \in {<<"admin">>, <<"user">>} : users = SeedUsers(role1)
    /\ BothSignedIn
    /\ streets = [o \in StreetOids |->
                     IF o = <<"a">> THEN SeedStreet(<<"2">>, <<"published">>) ELSE NoDoc]
    /\ resp = NoResponse
    /\ GeoInit
    /\ AccountInit
    /\ FlightInit

NextAdmin ==
    \/ \E s \in Sessions, form \in SignupForms : signup(s, "POST", form)
    \/ \E s \in Sessions : signup(s, "GET", BlankUpload)
    \/ login("s1", "POST", [email |-> <<" ", "X">>, password |-> <<"p">>])
    \/ login("s2", "POST", [email |-> <<"y">>, password |-> <<"q">>])
    \/ \E s \in Sessions : admin_dashboard(s)
    \/ \E s \in Sessions : admin_users(s)
    \/ \E s \in Sessions : admin_streets(s)
    \/ \E s \in Sessions, user_id \in UserIdArgs : admin_make_user_admin(s, user_id)
    \/ \E s \in Sessions, user_id \in UserIdArgs :
          admin_make_admin_user_normal(s, user_id)

SpecAdmin == InitAdmin /\ [][NextAdmin]_vars

AdminEndpoints ==
    {"admin_dashboard", "admin_users", "admin_streets", "admin_make_user_admin",
     "admin_make_admin_user_normal"}

\* the role of user u changes in this step
RoleChanges(u) ==
    /\ users[u] # NoDoc
    /\ users'[u] # NoDoc
    /\ users'[u].role # users[u].role

\* C10: a request to an admin endpoint by a signed-in user whose stored role
\* is not admin is answered 403 and leaves every user as it was; and the
\* role of a user changes in no step but the request of a session whose
\* user has the stored role admin.
C10_RolesChangeByAdminsOnly ==
    [][/\ \A s \in Sessions :
             (/\ resp'.seq # resp.seq
              /\ resp'.sess = s
              /\ resp'.ep \in AdminEndpoints
              /\ current_user(s) # NoDoc
              /\ current_user(s).role # <<"admin">>)
             => /\ resp'.status = 403
                /\ users' = users
       /\ (\E u \in UserIds : RoleChanges(u))
          => /\ resp'.seq # resp.seq
             /\ current_user(resp'.sess) # NoDoc
             /\ current_user(resp'.sess).role = <<"admin">>
      ]_vars

\* user 1, whom user 2 has turned from an admin into a user after being
\* made an admin by user 1, asked to make user 3 an admin and got 403
C10_Witness ==
    /\ resp.ep = "admin_make_user_admin"
    /\ resp.sess = "s1"
    /\ resp.arg = <<"3">>
    /\ resp.status = 403
    /\ users[<<"1">>].role = <<"user">>
    /\ users[<<"2">>].role = <<"admin">>
    /\ users[<<"3">>] # NoDoc
    /\ users[<<"3">>].role = <<"user">>

----------------------------------------------------------------------------
(* The price of a journey: requests one at a time, every answer of the    *)
(* geocoding service, the cache losing its expired entries                *)

InitGeo ==
    /\ now = 0
    /\ users = SeedUsers(<<"user">>)
    /\ session = [s \in Sessions |-> EmptySession]
    /\ streets = [o \in StreetOids |-> NoDoc]
    /\ resp = NoResponse
    /\ GeoInit
    /\ AccountInit
    /\ FlightInit

NextGeo ==
    \/ Later(NegativeTtl)
    \/ \E payload \in PricePayloads : api_price("s1", payload)
    \/ \E answer \in Answers(Query(geo)) : geocode_place(answer)
    \/ \E key \in CacheKeys : ttl_expire(key)

SpecGeo == InitGeo /\ [][NextGeo]_vars

\* the service was called in this step
Called == geo.pc = "lookup" /\ geo'.calls = geo.calls + 1

\* a price request arrived in this step
Arrived == resp'.seq # resp.seq /\ resp'.ep = "api_price"

\* what the cache c holds for the query
Cached(c, query) == c[Lower(Strip(query))]

\* C8: the service is never called for a query that the cache holds an
\* entry for under the trimmed, lower-cased query, be it a place or the
\* marker of no result: a lookup of the origin that finds an entry returns
\* its data, and so does a lookup of the destination, which ends the request
\* with no further call.
C8_CachedMeansNoCall ==
    [][/\ Called => Cached(cache, Query(geo)) = NoDoc
       /\ (Arrived /\ resp'.status # 400 /\ Cached(cache, geo'.origin) # NoDoc)
          => /\ ~(geo'.pc = "lookup" /\ geo'.which = "from")
             /\ geo'.geo_from = Cached(cache, geo'.origin).data
       /\ (/\ geo'.which = "to"
           /\ Arrived \/ (geo.pc = "lookup" /\ geo.which = "from")
           /\ Cached(cache', geo'.destination) # NoDoc)
          => /\ geo'.pc = "idle"
             /\ geo'.calls = geo.calls \/ Called \/ (Arrived /\ geo'.calls = 0)
             /\ geo'.geo_to = Cached(cache', geo'.destination).data
             /\ resp'.status = IF geo'.geo_from = NoResult \/ geo'.geo_to = NoResult
                                THEN 404 ELSE 200
             /\ resp'.status = 200
                => resp'.body.destination_formatted
                      = Cached(cache', geo'.destination).data.display_name
      ]_vars

\* Dubai to Paris was asked with a miss cached for Dubai and Paris cached:
\* the answer is 404 and the service was not called
C8_Witness ==
    /\ resp.ep = "api_price"
    /\ resp.form.origin = <<" ", "D">>
    /\ resp.status = 404
    /\ geo.pc = "idle"
    /\ geo.calls = 0
    /\ cache[<<"d">>] # NoDoc /\ cache[<<"d">>].data = NoResult
    /\ cache[<<"p">>] # NoDoc /\ cache[<<"p">>].data # NoResult
    /\ geo.geo_from = NoResult
    /\ geo.geo_to = cache[<<"p">>].data

\* the last call a lookup may make was made in this step and brought
\* neither a place nor an empty list of results
LastCallFailed ==
    /\ Called
    /\ geo.attempt = max_attempts
    /\ geo'.exit[geo.which] \notin {"found", "no_results"}

\* C7: when every one of the max_attempts calls of a lookup ends in a status
\* that is retried or in an exception, geocode_place raises and the request
\* is answered 502.
C7_ExhaustedRetriesAnswer502 ==
    [][LastCallFailed => (geo'.pc = "idle" /\ resp'.status = 502)]_vars

\* the request served last was a price request, and it has been answered
PriceAnswered ==
    /\ resp.ep = "api_price"
    /\ geo.pc = "idle"

\* origin or destination of that request was missing or blank
BlankAsked ==
    \/ ~Truthy(clean_text(Either(resp.form.origin, resp.form.from), 100))
    \/ ~Truthy(clean_text(Either(resp.form.destination, resp.form.to), 100))

\* a lookup of the request used up its attempts
Unreachable ==
    \/ geo.exit.from \in {"raised", "exhausted"}
    \/ geo.exit.to \in {"raised", "exhausted"}

\* C6: a price request is answered 400, with no call of the service, when
\* origin or destination is missing or blank; else 502 when a lookup used up
\* its attempts without an answer; else 404 when a lookup found no place;
\* else 200 with the distance and the price.
C6_FourOutcomes ==
    PriceAnswered
    => /\ resp.status \in {400, 502, 404, 200}
       /\ resp.status = 400 <=> BlankAsked
       /\ BlankAsked => geo.calls = 0
       /\ resp.status = 502 <=> (~BlankAsked /\ Unreachable)
       /\ resp.status = 404
          <=> (/\ ~BlankAsked
               /\ ~Unreachable
               /\ geo.geo_from = NoResult \/ geo.geo_to = NoResult)
       /\ resp.status = 200 => {"distance_km", "price"} \subseteq DOMAIN resp.body

\* origin and destination of the request answered are the same name
SamePlaceAsked ==
    /\ PriceAnswered
    /\ ~BlankAsked
    /\ clean_text(Either(resp.form.origin, resp.form.from), 100)
          = clean_text(Either(resp.form.destination, resp.form.to), 100)

\* C15: a price request whose origin and destination are the same place
\* name, the name having a result, gets the same coordinates from both
\* lookups, the distance 0 and the price range of a distance of 0: low 320,
\* high 480, mid 400.
C15_SamePlaceCostsTheFlatRange ==
    (SamePlaceAsked /\ geo.geo_from # NoResult) =>
       /\ geo.geo_to = geo.geo_from
       /\ resp.status = 200
       /\ resp.body.distance_km = 0
       /\ resp.body.price = [currency |-> <<"AED">>, low |-> 320, high |-> 480, mid |-> 400]

\* Dubai to Dubai: the service was called once, after two failed attempts,
\* and the second lookup was answered by the cache
C15_Witness ==
    /\ SamePlaceAsked
    /\ resp.status = 200
    /\ resp.body.origin_formatted = <<"Dubai">>
    /\ resp.body.distance_km = 0
    /\ resp.body.price.mid = 400
    /\ geo.exit = [from |-> "found", to |-> "cached"]
    /\ geo.calls = 3

----------------------------------------------------------------------------
(* The activity log: browser s1 starts signed out, with the session of an  *)
(* account that is gone, or signed in as user 1; browser s2 signs in       *)

\* the JSON body of an activity request: an event on street a, one with a
\* malformed street id, and an empty object
ActivityData ==
    {[event_type |-> <<" ", "view">>, street_id |-> <<"A">>, mode |-> <<"walk">>,
      agent |-> <<"ua">>, extra |-> NoForm],
     [event_type |-> <<"play">>, street_id |-> <<"g">>, mode |-> None,
      agent |-> <<"ua">>, extra |-> NoForm],
     [event_type |-> None, street_id |-> None, mode |-> None,
      agent |-> <<>>, extra |-> NoForm]}

InitActivity ==
    /\ now = 0
    /\ users = SeedUsers(<<"user">>)
    /\ \E first \in {EmptySession, SignedIn(<<"3">>), SignedIn(<<"1">>)} :
          session = [s \in Sessions |-> IF s = "s1" THEN first ELSE EmptySession]
    /\ streets = [o \in StreetOids |->
                     IF o = <<"a">> THEN SeedStreet(<<"1">>, <<"published">>) ELSE NoDoc]
    /\ resp = NoResponse
    /\ GeoInit
    /\ AccountInit
    /\ FlightInit

NextActivity ==
    \/ Tick
    \/ \E s \in Sessions, data \in ActivityData : log_activity(s, data)
    \/ login("s2", "POST", [email |-> <<"y">>, password |-> <<"q">>])
    \/ \E s \in Sessions : logout(s)

SpecActivity == InitActivity /\ [][NextActivity]_vars

ActivityServed(s) ==
    /\ resp'.seq # resp.seq
    /\ resp'.sess = s
    /\ resp'.ep = "log_activity"

\* C11: a POST to /api/activity is answered 204, with one log entry appended
\* for the user signed in, and with no log entry and no redirect when no
\* user is signed in.
C11_ActivityAlways204 ==
    [][\A s \in Sessions :
          ActivityServed(s) =>
             /\ resp'.status = 204
             /\ IF current_user(s) # NoDoc
                THEN /\ Len(activity_logs') = Len(activity_logs) + 1
                     /\ activity_logs'[Len(activity_logs')].userId = current_user(s)._id
                ELSE /\ activity_logs' = activity_logs
                     /\ resp'.loc = None
      ]_vars

----------------------------------------------------------------------------
(* Password reset: two browsers, user 1 asking for links, resets served in *)
(* steps that interleave, tokens expiring                                  *)

\* the email of user 1 as typed, and one of nobody
ForgotForms == {[email |-> <<" ", "X">>], [email |-> <<"z">>]}

\* the tokens of the links, and one that was never issued
TokenArgs == Tokens \cup {<<"t9">>}

\* each browser has its new password
ResetForm(s) == [password |-> IF s = "s1" THEN <<"r">> ELSE <<"s">>]

InitReset ==
    /\ now = 0
    /\ users = SeedUsers(<<"user">>)
    /\ session = [s \in Sessions |-> EmptySession]
    /\ streets = [o \in StreetOids |-> NoDoc]
    /\ resp = NoResponse
    /\ GeoInit
    /\ AccountInit
    /\ FlightInit

NextReset ==
    \/ Later(2)
    \/ \E form \in ForgotForms, delivered \in BOOLEAN :
          forgot_password("s1", "POST", form, delivered)
    \/ forgot_password("s1", "GET", NoForm, FALSE)
    \/ \E s \in Sessions, token \in TokenArgs :
          reset_password(s, token, "POST", ResetForm(s))
    \/ \E token \in TokenArgs : reset_password("s2", token, "GET", NoForm)
    \/ \E s \in Sessions : reset_update_one(s)
    \/ \E s \in Sessions : reset_delete_one(s)
    \/ \E token \in Tokens : reset_ttl_expire(token)

SpecReset == InitReset /\ [][NextReset]_vars

\* the request of browser s sets a password in this step
PasswordSet(s) == resetting[s].pc = "update_one" /\ resetting'[s].pc = "delete_one"

\* the token document is stored and has not expired
Usable(token) == FindToken(token) # NoDoc /\ FindToken(token).expiresAt >= now

ResetServed(s) ==
    /\ resp'.seq # resp.seq
    /\ resp'.sess = s
    /\ resp'.ep = "reset_password"

\* C12: a reset token is used once under any interleaving of requests: when
\* a POST sets a password its token is still stored and no other POST with
\* that token has set one; a request whose token was deleted, has expired or
\* was never issued is answered with the redirect to login and changes no
\* user.
C12_TokenUsedOnce ==
    [][\A s \in Sessions :
          /\ PasswordSet(s) =>
                /\ FindToken(resetting[s].token) # NoDoc
                /\ \A o \in Sessions \ {s} :
                      ~(resetting[o].pc = "delete_one"
                        /\ resetting[o].token = resetting[s].token)
          /\ (ResetServed(s) /\ resetting[s].pc = "idle" /\ ~Usable(resp'.arg)) =>
                /\ resp'.status = 302
                /\ resp'.loc = Path("login", None)
                /\ resp'.note = "invalid_or_expired"
                /\ users' = users
                /\ resetting' = resetting
      ]_vars

ForgotPosted(s) ==
    /\ resp'.seq # resp.seq
    /\ resp'.sess = s
    /\ resp'.ep = "forgot_password"
    /\ resp'.form # NoForm

\* the tokens stored
Issued(coll) == {t \in Tokens : coll[t] \notin {NoDoc, Removed}}

\* C13: the response to a POST of the forgot-password form is the same
\* redirect to login with the same message, whether the email is that of a
\* user or not and whether the mail was sent or not; a token is stored, and
\* a mail handed over, only when the email is that of a user, and the token
\* is that user's.
C13_ForgotAnswersAlike ==
    [][\A s \in Sessions :
          ForgotPosted(s) =>
             LET uid == FindUserByEmail(Lower(Strip(resp'.form.email))) IN
             /\ resp'.status = 302
             /\ resp'.loc = Path("login", None)
             /\ resp'.note = "reset_link_sent_if_exists"
             /\ resp'.body = NoBody
             /\ session' = session
             /\ users' = users
             /\ uid = None => reset_tokens' = reset_tokens /\ outbox' = outbox
             /\ \A t \in Issued(reset_tokens') \ Issued(reset_tokens) :
                   uid # None /\ reset_tokens'[t].userId = uid
      ]_vars

\* user 1 asked twice and one mail went out; somebody asked for an account
\* that does not exist and got the same answer
C13_Witness ==
    /\ resp.ep = "forgot_password"
    /\ resp.form = [email |-> <<"z">>]
    /\ resp.status = 302
    /\ Cardinality(Issued(reset_tokens)) = 2
    /\ Len(outbox) = 1

----------------------------------------------------------------------------
(* The price of a distance: estimate_price_aed applied to every whole      *)
(* distance up to MaxKm, and to one below zero                             *)

MaxKm == 2500

Distances == (0 - 1) .. MaxKm

InitEstimate ==
    /\ now = 0
    /\ users = SeedUsers(<<"user">>)
    /\ session = [s \in Sessions |-> EmptySession]
    /\ streets = [o \in StreetOids |-> NoDoc]
    /\ \E d \in Distances : resp = [NoResponse EXCEPT !.arg = d]
    /\ GeoInit
    /\ AccountInit
    /\ FlightInit

\* price_info = estimate_price_aed(distance_km), for the distance asked
Estimate ==
    /\ resp.ep = "none"
    /\ resp' = Response("estimate_price_aed", "s1", resp.arg, 200, None, "priced",
                        estimate_price_aed(resp.arg))
    /\ UNCHANGED <<users, session, streets, now, cache, geo, accountVars, flightVars>>

NextEstimate == Estimate

SpecEstimate == InitEstimate /\ [][NextEstimate]_vars

Abs(n) == IF n < 0 THEN 0 - n ELSE n

\* p is a multiple of 10 nearest to n / unit
NearestTen(p, n, unit) == p % 10 = 0 /\ Abs(p * unit - n) <= 5 * unit

\* approx of the distance d, in hundredths
Approx(d) ==
    IF d <= 0 THEN 400 * 100
    ELSE IF d <= 2000 THEN 200 * 100 + 45 * d
    ELSE 200 * 100 + 900 * 100 + 35 * (d - 2000)

\* C14: for every distance d the estimate takes approx = 400 when d <= 0,
\* 200 + 0.45 d up to 2000 and 200 + 900 + 0.35 (d - 2000) beyond, and its
\* low, mid and high are 0.8 approx, approx and 1.2 approx rounded to the
\* nearest multiple of 10; the estimate of 0 is 320, 480, 400 and that of
\* 1000 is 520, 780, 650.
C14_EstimateRoundsToTens ==
    resp.ep = "estimate_price_aed" =>
       LET d == resp.arg
           price == resp.body
       IN  /\ NearestTen(price.low, Approx(d) * 8, 1000)
           /\ NearestTen(price.mid, Approx(d), 100)
           /\ NearestTen(price.high, Approx(d) * 12, 1000)
           /\ d = 0 => price.low = 320 /\ price.high = 480 /\ price.mid = 400
           /\ d = 1000 => price.low = 520 /\ price.high = 780 /\ price.mid = 650

\* the estimate of 2100 km, on the far side of the 2000 km bend:
\* approx 1135, so 910, 1140 and 1360
C14_Witness ==
    /\ resp.ep = "estimate_price_aed"
    /\ resp.arg = 2100
    /\ resp.body.low = 910
    /\ resp.body.mid = 1140
    /\ resp.body.high = 1360

----------------------------------------------------------------------------
(* Modes: video uploads of every mode, of none and of unknown ones, into   *)
(* an empty collection, and the four list pages                            *)

\* the mode field as posted: the four modes, none, an unknown one, and the
\* spellings a form does not send
ModeArgs == VideoModes \cup {None, <<>>, <<"bike">>, <<"D", "r", "i", "v", "e">>,
                             <<" ", "fly">>}

ModeUploads == {[DriveUpload EXCEPT !.mode = mode] : mode \in ModeArgs}

InitModes ==
    /\ now = 0
    /\ users = SeedUsers(<<"user">>)
    /\ BothSignedIn
    /\ streets = [o \in StreetOids |-> NoDoc]
    /\ resp = NoResponse
    /\ GeoInit
    /\ AccountInit
    /\ FlightInit

NextModes ==
    \/ \E form \in ModeUploads : upload("s2", "POST", form)
    \/ upload("s2", "POST", ModelUpload)
    \/ delete_street("s2", <<"a">>)
    \/ walk("s1", None)
    \/ drive("s1", None)
    \/ fly("s1", None)
    \/ \E category_arg \in {None, <<"art">>} : sit("s1", category_arg)

SpecModes == InitModes /\ [][NextModes]_vars

\* the mode of a list page
PageMode(ep) == <<ep>>

\* the ids of the streets a page lists
ListedIds(r) == {doc._id : doc \in r.body.streets}

\* C16: a video uploaded with mode walk, drive, fly or sit is stored with
\* that mode, and one uploaded with no mode or another is stored with mode
\* walk; the list page of a mode lists a stored video exactly when it is
\* published, not deleted and of that mode, so an uploaded video is on the
\* page of its mode and on no other.
C16_ModeStoredAndListed ==
    [][/\ \A o \in StreetOids :
             (resp'.seq # resp.seq /\ resp'.ep = "upload" /\ resp'.form # NoForm
                /\ resp'.form.street_type = <<"video">>
                /\ streets[o] = NoDoc /\ streets'[o] # NoDoc)
             => streets'[o].mode = IF resp'.form.mode \in VideoModes
                                   THEN resp'.form.mode ELSE <<"walk">>
       /\ (resp'.seq # resp.seq /\ resp'.ep \in {"walk", "drive", "fly", "sit"}
             /\ resp'.arg = None)
          => ListedIds(resp') =
                {o \in StreetOids : /\ streets[o] # NoDoc
                                    /\ streets[o].type = <<"video">>
                                    /\ Shown(streets[o])
                                    /\ streets[o].mode = PageMode(resp'.ep)}
      ]_vars

\* a video posted with mode "bike" and one posted with mode fly are stored;
\* the walk page lists the first and not the second
C16_Witness ==
    /\ resp.ep = "walk"
    /\ \E o, p \in StreetOids :
          /\ streets[o] # NoDoc /\ streets[o].mode = <<"walk">>
          /\ streets[p] # NoDoc /\ streets[p].mode = <<"fly">>
          /\ ListedIds(resp) = {o}

----------------------------------------------------------------------------
(* The dashboard and its summary: street a of user 2, a street that the    *)
(* operator's account uploads, deletions, likes and logged events; the     *)
(* operator's account is an admin or is not                                *)

\* the days argument of the summary: the default, all time, and no number
DaysArgs == {None, <<"0">>, <<"x">>}

InitDash ==
    /\ now = 0
    /\ \E role1 \in {<<"admin">>, <<"user">>} : users = SeedUsers(role1)
    /\ BothSignedIn
    /\ streets = [o \in StreetOids |->
                     IF o = <<"a">> THEN upload_post(<<"2">>, DriveUpload).doc ELSE NoDoc]
    /\ resp = NoResponse
    /\ GeoInit
    /\ AccountInit
    /\ FlightInit

NextDash ==
    \/ upload("s1", "POST", ModelUpload)
    \/ \E s \in Sessions, street_id \in StreetOids : delete_street(s, street_id)
    \/ \E s \in Sessions : dashboard(s)
    \/ \E s \in Sessions, days_arg \in DaysArgs : api_dashboard_summary(s, days_arg)
    \/ log_activity("s2", [event_type |-> <<"view">>, street_id |-> <<"a">>,
                            mode |-> None, agent |-> <<"ua">>, extra |-> NoForm])
    \/ like_street("s1", <<"a">>)
    \/ logout("s2")

SpecDash == InitDash /\ [][NextDash]_vars

\* the streets of the dashboard of user: those not deleted, of every owner
\* for an admin and of the user otherwise
OnDashboardOf(user) ==
    {o \in StreetOids :
        /\ streets[o] # NoDoc
        /\ streets[o].deleted = FALSE
        /\ (user.role = <<"admin">> \/ streets[o].ownerId = user._id)}

\* C17: the dashboard and /api/dashboard/summary return, to a user who is
\* not an admin, exactly the streets with deleted = false that the user
\* owns, and to an admin exactly the streets with deleted = false.
C17_DashboardListsOwnStreets ==
    [][(resp'.seq # resp.seq /\ resp'.ep \in {"dashboard", "api_dashboard_summary"}
          /\ resp'.status = 200)
       => /\ ListedIds(resp') = OnDashboardOf(current_user(resp'.sess))
          /\ resp'.ep = "dashboard" => \A doc \in resp'.body.streets : Stored(doc)
          /\ resp'.ep = "api_dashboard_summary" =>
                resp'.body.totals.total_streets
                   = Cardinality(OnDashboardOf(current_user(resp'.sess)))
      ]_vars

\* user 2, no admin, asked for the summary while the street of the
\* operator's account was stored and not deleted, and got street a alone
C17_Witness ==
    /\ resp.ep = "api_dashboard_summary"
    /\ resp.sess = "s2"
    /\ resp.status = 200
    /\ streets[<<"b">>] # NoDoc
    /\ streets[<<"b">>].deleted = FALSE
    /\ streets[<<"b">>].ownerId = <<"1">>
    /\ ListedIds(resp) = {<<"a">>}
    /\ Len(resp.body.recent) = 1

----------------------------------------------------------------------------
(* Coordinates: street a of user 2, uploads by user 2 with good and bad    *)
(* coordinates, edits of both streets by user 2 and by an admin with good  *)
(* and bad coordinates, and the clock                                      *)

\* edits to the corners of the range, and edits with lat or lng out of
\* range, not a number, or missing
CornerEdit == [GoodEdit EXCEPT !.lat = <<" ", "-", "9", "0">>, !.lng = <<"1", "8", "0">>]

BadLatLngEdits ==
    {[GoodEdit EXCEPT !.lat = <<"9", "1">>],
     [GoodEdit EXCEPT !.lat = <<"-", "9", "1">>],
     [GoodEdit EXCEPT !.lng = <<"1", "8", "1">>],
     [GoodEdit EXCEPT !.lng = <<"-", "1", "8", "1">>],
     [GoodEdit EXCEPT !.lat = <<"nan">>],
     [GoodEdit EXCEPT !.lng = <<"x">>],
     [GoodEdit EXCEPT !.lat = <<>>],
     [GoodEdit EXCEPT !.lng = None]}

InitEdit ==
    /\ now = 0
    /\ users = SeedUsers(<<"admin">>)
    /\ BothSignedIn
    /\ streets = [o \in StreetOids |->
                     IF o = <<"a">> THEN upload_post(<<"2">>, DriveUpload).doc ELSE NoDoc]
    /\ resp = NoResponse
    /\ GeoInit
    /\ AccountInit
    /\ FlightInit

NextEdit ==
    \/ Tick
    \/ \E form \in {EdgeUpload} \cup BadLatLngUploads : upload("s2", "POST", form)
    \/ \E s \in Sessions, form \in {GoodEdit, CornerEdit} \cup BadLatLngEdits :
          edit_street(s, <<"a">>, "POST", form)
    \/ \E form \in {CornerEdit} \cup BadLatLngEdits : edit_street("s2", <<"B">>, "POST", form)

SpecEdit == InitEdit /\ [][NextEdit]_vars

\* C18: after any uploads and edits every stored street has its lat within
\* [-90, 90] and its lng within [-180, 180].
C18_StoredLatLngInRange ==
    \A o \in StreetOids :
       streets[o] # NoDoc =>
          /\ streets[o].lat \in (0 - 90) .. 90
          /\ streets[o].lng \in (0 - 180) .. 180

\* both streets are stored, one edited to a corner of the range, after
\* an edit with a longitude of 181 was refused
C18_Witness ==
    /\ streets[<<"a">>] # NoDoc
    /\ streets[<<"b">>] # NoDoc
    /\ streets[<<"a">>].lat = 0 - 90
    /\ streets[<<"a">>].lng = 180
    /\ resp.ep = "edit_street"
    /\ resp.form = [GoodEdit EXCEPT !.lng = <<"1", "8", "1">>]
    /\ resp.note = "invalid_latlng"

\* the request served in this step was an edit POST by a user who may edit
\* the street named: its owner, or an admin, the street not being deleted
EditPostedByOwnerOrAdmin ==
    /\ resp'.seq # resp.seq
    /\ resp'.ep = "edit_street"
    /\ resp'.form # NoForm
    /\ current_user(resp'.sess) # NoDoc
    /\ Named(resp'.arg) # NoDoc
    /\ ~Named(resp'.arg).deleted
    /\ \/ current_user(resp'.sess).role = <<"admin">>
       \/ Named(resp'.arg).ownerId = current_user(resp'.sess)._id

\* C19: an edit POST by the owner or an admin whose lat or lng is missing, no
\* number or out of range is refused with a redirect back to the edit form
\* and leaves every field of every street as it was, updatedAt included.
C19_BadLatLngEditWritesNothing ==
    [][(/\ EditPostedByOwnerOrAdmin
        /\ ~(/\ NumberWithin(resp'.form.lat, 0 - 90, 90)
             /\ NumberWithin(resp'.form.lng, 0 - 180, 180)))
       => /\ resp'.status = 302
          /\ resp'.loc = Path("edit_street", resp'.arg)
          /\ streets' = streets
      ]_vars

\* the admin posted an edit of street a with a new name and a latitude of
\* 91 an hour after the upload; the street has its old name and updatedAt
C19_Witness ==
    /\ resp.ep = "edit_street"
    /\ resp.sess = "s1"
    /\ resp.arg = <<"a">>
    /\ resp.form = [GoodEdit EXCEPT !.lat = <<"9", "1">>]
    /\ resp.status = 302
    /\ now = 1
    /\ streets[<<"a">>].name = <<"n">>
    /\ streets[<<"a">>].updatedAt = 0

----------------------------------------------------------------------------
(* Stale cache entries: as the price of a journey, with the clock going    *)
(* past the expiry of a cached miss before the store has purged it         *)

NextStale ==
    \/ Later(NegativeTtl + 1)
    \/ \E payload \in PricePayloads : api_price("s1", payload)
    \/ \E answer \in Answers(Query(geo)) : geocode_place(answer)
    \/ \E key \in CacheKeys : ttl_expire(key)

SpecStale == InitGeo /\ [][NextStale]_vars

\* the cache c holds an entry for the query whose expiresAt lies in the past
Stale(c, query) == Cached(c, query) # NoDoc /\ Cached(c, query).expiresAt < now

\* C21: geocode_place takes a cache entry whose expiresAt lies in the past,
\* and which the store has not purged, for no entry: the lookup does not
\* return the data of the entry and calls the service.
C21_StaleEntryIsAbsent ==
    [][(Arrived /\ resp'.status # 400 /\ Stale(cache, geo'.origin))
       => /\ geo'.exit.from # "cached"
          /\ geo'.pc = "lookup"
          /\ geo'.which = "from"
      ]_vars

----------------------------------------------------------------------------
(* 3D uploads: an empty collection, uploads of a model as a file, as a     *)
(* link, with a link that is blank, and with neither                       *)

ModelUploads ==
    {ModelUpload,
     [ModelUpload EXCEPT !.model_link = None],
     [ModelUpload EXCEPT !.model_link = <<>>],
     [ModelUpload EXCEPT !.model_link = <<" ">>],
     [ModelUpload EXCEPT !.model_link = <<" ", "glb", "\n">>],
     [ModelUpload EXCEPT !.model_link = None, !.model = GoodFile(<<"m", ".", "glb">>)],
     [ModelUpload EXCEPT !.model = [GoodFile(<<"m", ".", "glb">>) EXCEPT !.size = 51]]}

NextModels ==
    \/ Tick
    \/ \E s \in Sessions, form \in ModelUploads : upload(s, "POST", form)
    \/ \E s \in Sessions : upload(s, "GET", BlankUpload)

SpecModels == InitUpload /\ [][NextModels]_vars

\* C24: every stored street of type 3d has a glbUrl that is not empty; a 3D
\* upload with no model file and no model link, or with a link that is blank
\* once trimmed, is refused and writes nothing.
C24_ModelsHaveGlbUrl ==
    \A o \in StreetOids :
       (streets[o] # NoDoc /\ streets[o].type = <<"3d">>)
       => streets[o].glbUrl \notin {None, <<>>}

----------------------------------------------------------------------------
(* The retry loop of geocode_place *)

\* the service answered this call with a first candidate whose lat or lon is
\* no number, for the first time in the lookup
MalformedAnswered ==
    /\ Called
    /\ geo.last_exc # "value_error"
    /\ geo'.last_exc = "value_error"

\* C22: when the service answers with a first candidate whose lat or lon is
\* no number, the lookup returns no result at once, without a sleep, another
\* attempt or an error, and the request is not answered 502.
C22_MalformedIsNoResult ==
    [][MalformedAnswered
       => /\ geo'.exit[geo.which] \notin {"unset", "raised"}
          /\ geo'.slept = geo.slept
          /\ resp'.status # 502
      ]_vars

\* the retry loop of the lookup goes on after this call
Retried == Called /\ geo'.pc = "lookup" /\ geo'.which = geo.which

RECURSIVE TwoToThe(_)
TwoToThe(n) == IF n = 0 THEN 1 ELSE 2 * TwoToThe(n - 1)

\* the calls of the service a price request may make come to an end
SpecGeoFair ==
    SpecGeo /\ WF_vars(\E answer \in Answers(Query(geo)) : geocode_place(answer))

\* C23: a lookup calls the service at most max_attempts times, whatever the
\* answers, and then ends; the sleep after the k-th failed attempt is
\* base_sleep * 2^(k-1), twice the one before, and nothing else is slept.
C23_BoundedRetriesDoubleSleep ==
    /\ [][/\ Called => geo.attempt \in 1 .. max_attempts
          /\ Retried => geo'.attempt = geo.attempt + 1
          /\ (Called /\ geo.attempt = max_attempts) => ~Retried
          /\ (geo'.slept # geo.slept /\ ~Arrived)
             => /\ Called
                /\ geo'.slept - geo.slept = base_sleep * TwoToThe(geo.attempt - 1)
                /\ geo.attempt > 1
                   => geo'.slept - geo.slept
                         = 2 * base_sleep * TwoToThe(geo.attempt - 2)
          /\ Retried => geo'.slept # geo.slept
         ]_vars
    /\ (geo.pc = "lookup") ~> (geo.pc = "idle")

\* the lookup of the origin made its four calls, slept 0.6, 1.2, 2.4 and
\* 4.8 seconds, and the request was answered
C23_Witness ==
    /\ geo.pc = "idle"
    /\ geo.exit.from = "raised"
    /\ geo.calls = max_attempts
    /\ geo.attempt = max_attempts
    /\ geo.slept = 6 + 12 + 24 + 48
    /\ resp.status = 502

\* C29: the cache is written only in a step in which the service answered
\* the call with a list of results, empty or not, and then under the query
\* of the call; a call that is answered with a retried status or ends in an
\* exception leaves the cache as it was, and so does the lookup it ends.
C29_FailuresLeaveCacheAlone ==
    [][/\ (Called /\ geo'.exit[geo.which] \notin {"found", "no_results"})
          => cache' = cache
       /\ Arrived => cache' = cache
       /\ \A key \in CacheKeys :
             (cache'[key] # cache[key] /\ cache'[key] # NoDoc)
             => /\ Called
                /\ key = cache_key_for_query(Query(geo))
                /\ geo'.exit[geo.which] \in {"found", "no_results"}
      ]_vars

\* the lookup of Paris ended in an error after four failed calls, the
\* lookup of Dubai before it having found the place: Dubai is cached,
\* Paris is not
C29_Witness ==
    /\ geo.pc = "idle"
    /\ geo.exit = [from |-> "found", to |-> "raised"]
    /\ resp.status = 502
    /\ cache[<<"d">>] # NoDoc
    /\ cache[<<"p">>] = NoDoc

----------------------------------------------------------------------------
(* What an edit leaves alone: two streets, liked and edited with and without
   the tour fields *)

\* edit forms with the tour fields present one at a time
TourEdits ==
    {GoodEdit,
     [GoodEdit EXCEPT !.is_tour = None, !.tour_category = <<" ", "zoo">>],
     [GoodEdit EXCEPT !.is_tour = <<"off">>, !.tour_best_time = <<"dawn">>],
     [GoodEdit EXCEPT !.lat = <<"9", "1">>, !.tour_category = <<"zoo">>]}

InitFrame ==
    /\ now = 0
    /\ users = SeedUsers(<<"admin">>)
    /\ BothSignedIn
    /\ streets = [o \in StreetOids |->
                     IF o = <<"a">> THEN upload_post(<<"2">>, EdgeUpload).doc
                     ELSE upload_post(<<"1">>, ModelUpload).doc]
    /\ resp = NoResponse
    /\ GeoInit
    /\ AccountInit
    /\ FlightInit

NextFrame ==
    \/ Tick
    \/ \E form \in TourEdits : edit_street("s2", <<"A">>, "POST", form)
    \/ \E street_id \in StreetOids : edit_street("s1", street_id, "POST", GoodEdit)
    \/ like_street("s2", <<"a">>)

SpecFrame == InitFrame /\ [][NextFrame]_vars

\* the request served in this step was an edit that was carried out
EditUpdated ==
    /\ resp'.seq # resp.seq
    /\ resp'.ep = "edit_street"
    /\ resp'.note = "updated"

\* the fields an edit with this form may change
EditableFields(form) ==
    {"name", "city", "country", "category", "description", "lat", "lng", "updatedAt"}
    \cup {f \in {"is_tour", "tour_category", "tour_best_time"} : form[f] # None}

\* the field f is the same in both documents, or in neither
SameField(f, old, new) ==
    IF f \in DOMAIN old THEN f \in DOMAIN new /\ new[f] = old[f]
    ELSE f \notin DOMAIN new

\* C26: an edit that is carried out changes, of the street it names, only
\* name, city, country, category, description, lat, lng, updatedAt and the
\* tour fields present in the form; ownerId, likes, status, deleted, type,
\* mode, videos, glbUrl, createdAt and every other field of that street,
\* and every other street, are as before.
C26_EditChangesOnlyItsFields ==
    [][EditUpdated
       => LET oid == ObjectId(resp'.arg) IN
          /\ \A o \in StreetOids \ {oid} : streets'[o] = streets[o]
          /\ \A f \in {"ownerId", "likes", "status", "deleted", "type", "mode",
                       "videos", "glbUrl", "createdAt"} :
                SameField(f, streets[oid], streets'[oid])
          /\ \A f \in (DOMAIN streets[oid] \cup DOMAIN streets'[oid])
                         \ EditableFields(resp'.form) :
                SameField(f, streets[oid], streets'[oid])
      ]_vars

\* the liked video street, uploaded as a tour, was edited an hour later with
\* a form that had a tour category and no tour flag: the category is new,
\* the flag, the like and the date of creation are as they were
C26_Witness ==
    /\ resp.ep = "edit_street"
    /\ resp.note = "updated"
    /\ resp.arg = <<"A">>
    /\ resp.form.is_tour = None
    /\ streets[<<"a">>].tour_category = <<"zoo">>
    /\ streets[<<"a">>].is_tour = TRUE
    /\ streets[<<"a">>].likes = 1
    /\ streets[<<"a">>].createdAt = 0
    /\ streets[<<"a">>].updatedAt = 1
    /\ streets[<<"a">>].name = <<"e">>

----------------------------------------------------------------------------
(* Google login and the roles of the accounts *)

\* users_collection.find_one({"googleId": google_id}): the id of a user
\* found, or None
FindUserByGoogleId(google_id) ==
    IF \E u \in DOMAIN users : Matches(users[u], [googleId |-> google_id])
    THEN CHOOSE u \in DOMAIN users : Matches(users[u], [googleId |-> google_id])
    ELSE None

\* a first Google login that makes the account an admin
GoogleUser_Admin(google_id, email, name) ==
    [googleId |-> google_id, email |-> email, name |-> name,
     createdAt |-> now, lastLoginAt |-> now, role |-> <<"admin">>]

\* the document insert_one writes at a first Google login
GoogleUser(google_id, email, name) ==
    [googleId |-> google_id, email |-> email, name |-> name,
     createdAt |-> now, lastLoginAt |-> now, role |-> <<"user">>]

\* authorize_access_token() raised: the sign-in was refused or forged
Denied == [denied |-> TRUE]

\* registered: "google" is in oauth._registry, as the configuration has it;
\* userinfo: what Google says of who signed in, or Denied
auth_google_callback(s, registered, userinfo) ==
    /\ ~protect_protected_routes("auth_google_callback", s)
    /\ IF ~registered
       THEN /\ resp' = redirect("auth_google_callback", s, None, Path("login", None),
                                "not_configured")
            /\ UNCHANGED <<users, session>>
       ELSE IF userinfo = Denied
       THEN /\ resp' = abort("auth_google_callback", s, None, 500, "oauth_error")
            /\ UNCHANGED <<users, session>>
       ELSE LET google_id == Get(userinfo, "sub")
                email == Lower(OrElse(userinfo, "email", <<>>))
                name == OrElse(userinfo, "name", <<>>)
                by_id == FindUserByGoogleId(google_id)
                uid == IF by_id = None /\ Truthy(email)
                       THEN FindUserByEmail(email) ELSE by_id
            IN  /\ IF uid # None
                   THEN /\ users' = [users EXCEPT ![uid] =
                               [googleId |-> google_id, email |-> email, name |-> name,
                                lastLoginAt |-> now] @@ @]
                        /\ session' = [session EXCEPT ![s].user_id = uid,
                                                      ![s].next = None]
                   ELSE \E u \in DOMAIN users :
                           /\ users[u] = NoDoc
                           /\ users' = [users EXCEPT ![u] =
                                           GoogleUser(google_id, email, name)]
                           /\ session' = [session EXCEPT ![s].user_id = u,
                                                         ![s].next = None]
                /\ resp' = redirect("auth_google_callback", s, None, NextUrl(s),
                                    "signed_in")
    /\ UNCHANGED <<streets, now, cache, geo, accountVars, flightVars>>

(* Roles: the operator's account, an admin or not, signed in at browser s1; *)
(* accounts are made by signup and by Google login                          *)

\* what Google says: a new person, the holder of the operator's email
\* address, a person without an email address, or nothing
UserInfos ==
    {[sub |-> <<"g1">>, email |-> <<"G", "1">>, name |-> <<"g">>],
     [sub |-> <<"g2">>, email |-> <<"X">>, name |-> <<"x">>],
     [sub |-> <<"g3">>, email |-> None, name |-> None],
     Denied}

InitRoles ==
    /\ now = 0
    /\ \E role1 \in {<<"admin">>, <<"user">>} :
          users = [SeedUsers(role1) EXCEPT ![<<"2">>] = NoDoc]
    /\ session = [s \in Sessions |->
                     IF s = "s1" THEN SignedIn(<<"1">>) ELSE EmptySession]
    /\ streets = [o \in StreetOids |-> NoDoc]
    /\ resp = NoResponse
    /\ GeoInit
    /\ AccountInit
    /\ FlightInit

NextRoles ==
    \/ \E form \in SignupForms : signup("s2", "POST", form)
    \/ login("s2", "POST", [email |-> <<"z">>, password |-> <<"r">>])
    \/ \E userinfo \in UserInfos : auth_google_callback("s2", TRUE, userinfo)
    \/ auth_google_callback("s2", FALSE, Denied)
    \/ \E s \in Sessions, user_id \in UserIdArgs : admin_make_user_admin(s, user_id)
    \/ \E user_id \in UserIdArgs : admin_make_admin_user_normal("s1", user_id)

SpecRoles == InitRoles /\ [][NextRoles]_vars

\* the accounts whose stored role is admin
Admins(u) == {uid \in DOMAIN u : is_admin_user(u[uid])}

\* C27: an account made by signup or by a first Google login has the role
\* user; the role of an account changes only in a request to make-admin or
\* make-user by a requester whose stored role is admin; so a step from a
\* state without an admin leads to a state without an admin.
C27_NoAdminFromNoAdmin ==
    [][/\ \A uid \in DOMAIN users :
             (users[uid] = NoDoc /\ users'[uid] # NoDoc)
             => /\ resp'.ep \in {"signup", "auth_google_callback"}
                /\ Get(users'[uid], "role") = <<"user">>
       /\ \A uid \in DOMAIN users :
             (users[uid] # NoDoc /\ Get(users'[uid], "role") # Get(users[uid], "role"))
             => /\ resp'.ep \in {"admin_make_user_admin", "admin_make_admin_user_normal"}
                /\ is_admin_user(current_user(resp'.sess))
       /\ Admins(users) = {} => Admins(users') = {}
      ]_vars

\* no account is an admin; one was made by signup, one by a first Google
\* login at browser s2, whose request to make itself admin was refused
C27_Witness ==
    /\ Admins(users) = {}
    /\ \E uid \in DOMAIN users :
          /\ users[uid] # NoDoc
          /\ Get(users[uid], "googleId") = <<"g1">>
          /\ session["s2"].user_id = uid
          /\ resp.arg = uid
    /\ \E uid \in DOMAIN users :
          /\ users[uid] # NoDoc
          /\ Get(users[uid], "passwordHash") = generate_password_hash(<<"r">>)
    /\ resp.ep = "admin_make_user_admin"
    /\ resp.sess = "s2"
    /\ resp.status = 403

----------------------------------------------------------------------------
(* Likes served at the same time: the steps of like_street.  The session   *)
(* is a cookie: a request works on the copy it arrived with, and the       *)
(* browser keeps the copy the last response set.                           *)

\* the request r arrives from browser s: like_street up to its update_one
like_arrive(r, s, street_id) ==
    /\ liking[r] = IdleLike
    /\ ~protect_protected_routes("like_street", s)
    /\ IF ~ValidOid(street_id)
       THEN /\ resp' = Response("like_street", s, street_id, 400, None, "invalid_id",
                                [error |-> "Invalid ID"])
            /\ UNCHANGED liking
       ELSE IF AlreadyLiked(s, street_id)
       THEN /\ resp' = Response("like_street", s, street_id, 200, None,
                                "already_liked", LikesBody(streets, ObjectId(street_id)))
            /\ UNCHANGED liking
       ELSE /\ liking' = [liking EXCEPT ![r] =
                             [pc |-> "update_one", sess |-> s, street_id |-> street_id,
                              cookie |-> session[s]]]
            /\ UNCHANGED resp
    /\ UNCHANGED <<users, session, streets, now, cache, geo, accountVars, editing>>

\* streets_collection.update_one({"_id": oid}, {"$inc": {"likes": 1}})
like_update_one(r) ==
    /\ liking[r].pc = "update_one"
    /\ LikesBody(streets, ObjectId(liking[r].street_id)).likes < MaxLikes
    /\ streets' = IncLikes(ObjectId(liking[r].street_id))
    /\ liking' = [liking EXCEPT ![r].pc = "find_one"]
    /\ UNCHANGED <<users, session, now, resp, cache, geo, accountVars, editing>>

\* session["liked"] = list(liked), the find_one and the response, whose
\* cookie replaces the one of the browser
like_find_one(r) ==
    /\ liking[r].pc = "find_one"
    /\ LET s == liking[r].sess
           street_id == liking[r].street_id
       IN  /\ session' = [session EXCEPT ![s] =
                             [liking[r].cookie EXCEPT !.liked = @ \cup {street_id}]]
           /\ resp' = Response("like_street", s, street_id, 200, None, "incremented",
                               LikesBody(streets, ObjectId(street_id)))
    /\ liking' = [liking EXCEPT ![r] = IdleLike]
    /\ UNCHANGED <<users, streets, now, cache, geo, accountVars, editing>>

InitLikeRace ==
    /\ now = 0
    /\ users = SeedUsers(<<"user">>)
    /\ session = [s \in Sessions |-> EmptySession]
    /\ streets = [o \in StreetOids |-> SeedStreet(<<"2">>, <<"published">>)]
    /\ resp = NoResponse
    /\ GeoInit
    /\ AccountInit
    /\ FlightInit

NextLikeRace ==
    \/ \E r \in LikeRequests, s \in Sessions, street_id \in StreetOids \cup {<<"g">>} :
          like_arrive(r, s, street_id)
    \/ \E r \in LikeRequests : like_update_one(r)
    \/ \E r \in LikeRequests : like_find_one(r)

SpecLikeRace == InitLikeRace /\ [][NextLikeRace]_vars

\* the browsers that have liked the street oid or have a like of it in flight
Likers(oid) ==
    {s \in Sessions :
        \/ oid \in session[s].liked
        \/ \E r \in LikeRequests :
              /\ liking[r] # IdleLike
              /\ liking[r].sess = s
              /\ liking[r].street_id = oid}

\* C25: whatever the interleaving of the like requests, two requests of
\* one browser that both arrived before the street was in its session
\* included, a street has at most one like from each browser.
C25_OneLikePerSessionUnderRace ==
    \A oid \in StreetOids : streets[oid].likes <= Cardinality(Likers(oid))

----------------------------------------------------------------------------
(* An edit and a delete served at the same time: the steps of an edit POST *)

\* the edit POST gets as far as its update_one
EditReachesWrite(s, street_id, form) ==
    /\ ~protect_protected_routes("edit_street", s)
    /\ current_user(s) # NoDoc
    /\ ValidOid(street_id)
    /\ MatchesById(ObjectId(street_id), EditScope(current_user(s)))
    /\ EditLatLngAccepted(float(form.lat), float(form.lng))

\* edit_street from the arrival of a POST to the line before update_one:
\* the find_one and the checks of the form; a request that is refused is
\* answered at once
edit_find(s, street_id, form) ==
    /\ editing[s] = IdleEdit
    /\ IF EditReachesWrite(s, street_id, form)
       THEN /\ editing' = [editing EXCEPT ![s] =
                              [pc |-> "update_one", street_id |-> street_id,
                               form |-> form]]
            /\ UNCHANGED <<users, session, streets, now, resp, cache, geo,
                           accountVars, liking>>
       ELSE edit_street(s, street_id, "POST", form)

\* updated_fields["updatedAt"] = datetime.utcnow();
\* streets_collection.update_one({"_id": oid}, {"$set": updated_fields}),
\* and the redirect to the dashboard
edit_update_one(s) ==
    /\ editing[s].pc = "update_one"
    /\ LET street_id == editing[s].street_id
           form == editing[s].form
           oid == ObjectId(street_id)
       IN  /\ streets' = IF streets[oid] # NoDoc
                         THEN [streets EXCEPT ![oid] =
                                  [updatedAt |-> now]
                                  @@ [lat |-> float(form.lat).v, lng |-> float(form.lng).v]
                                  @@ EditTextFields(form) @@ @]
                         ELSE streets
           /\ resp' = Posted(redirect("edit_street", s, street_id,
                                      Path("dashboard", None), "updated"), form)
    /\ editing' = [editing EXCEPT ![s] = IdleEdit]
    /\ UNCHANGED <<users, session, now, cache, geo, accountVars, liking>>

InitEditRace ==
    /\ now = 0
    /\ users = SeedUsers(<<"user">>)
    /\ BothSignedIn
    /\ streets = [o \in StreetOids |->
                     IF o = <<"a">> THEN upload_post(<<"2">>, DriveUpload).doc
                     ELSE upload_post(<<"1">>, ModelUpload).doc]
    /\ resp = NoResponse
    /\ GeoInit
    /\ AccountInit
    /\ FlightInit

NextEditRace ==
    \/ Tick
    \/ \E s \in Sessions, street_id \in StreetOids,
          form \in {GoodEdit, [GoodEdit EXCEPT !.lat = <<"9", "1">>]} :
          edit_find(s, street_id, form)
    \/ \E s \in Sessions : edit_update_one(s)
    \/ \E s \in Sessions, street_id \in StreetOids : delete_street(s, street_id)

SpecEditRace == InitEditRace /\ [][NextEditRace]_vars

\* C28: whatever the interleaving of an edit and a delete of one street,
\* no step changes a field of a street whose deleted flag is set: the
\* edit writes nothing to a street that was deleted before its write.
C28_NoWriteAfterDelete ==
    [][\A oid \in StreetOids :
          (streets[oid] # NoDoc /\ streets[oid].deleted) => streets'[oid] = streets[oid]
      ]_vars

====
